---- MODULE Spec2Model ----
(***************************************************************************)
(* Call signalling of snaptalks: the useWebRTCCall hook (hooks/useWebRTCCall)*)
(* as used by WebRTCCall / ChatRoom / IncomingCallNotification, and the     *)
(* older useWebRTC hook.  Every participant ("admin", "client") runs one    *)
(* hook instance; asynchronous functions are tasks that suspend at their    *)
(* awaits of browser operations and resume in any order.                    *)
(*                                                                          *)
(* React closures: a callback sees the localStream state of the render it   *)
(* was created in.  A function in flight, and the handlers a peer           *)
(* connection was given, keep the value of the render they were started     *)
(* from (field cls); handlers invoked from the UI or the socket see the     *)
(* committed value (a state update is taken to be rendered at once).        *)
(***************************************************************************)
EXTENDS Naturals, Sequences, FiniteSets

\* ---------------------------------------------------------------- bounds
MaxTasks == 2      \* asynchronous functions in flight per participant
MaxCmd == 2        \* Spec: startCall + acceptCall invocations
MaxEnd == 1        \* Spec: endCall invocations
MaxRecv == 2       \* Spec: signals arriving from the room
BothCmd == 1       \* SpecBoth: startCall + acceptCall / answerCall invocations
BothEnd == 2       \* SpecBoth: endCall + rejectCall invocations
BothRecv == 2      \* SpecBoth: signals arriving from the room
IceCmd == 1        \* SpecIce: startCall + acceptCall invocations
IceRecv == 3       \* SpecIce: signals arriving from the room
HappyCand == 1     \* SpecHappy: candidates each connection gathers
RaceCmd == 2       \* SpecRace: acceptCall invocations per participant
RejectCand == 2    \* SpecReject: candidates the caller's connection gathers
ShareToggles == 3  \* SpecShare: toggleScreenShare invocations
ShareRecv == 2     \* SpecShare: signals arriving from the room
OnceCmd == 3       \* SpecOnce: startCall + acceptCall invocations
OnceRecv == 1      \* SpecOnce: signals arriving from the room
JoinCmd == 2       \* SpecJoin: acceptCall invocations
JoinRecv == 2      \* SpecJoin: signals arriving from the room
GlareRecv == 2     \* SpecGlare: signals arriving from the room
TransportCmd == 2  \* SpecTransport: startCall invocations
ScreenToggles == 3 \* SpecScreen: toggleScreenShare invocations, native stops included
ScreenRecv == 2    \* SpecScreen: signals arriving from the room
AbortCmd == 3      \* SpecAbort: startCall invocations
MuteCmd == 2       \* SpecMute: startCall invocations
MuteToggles == 2   \* SpecMute: toggleAudio + toggleVideo + toggleScreenShare invocations

Party == {"admin", "client"}
Other(p) == IF p = "admin" THEN "client" ELSE "admin"

SignalTypes == {"offer", "answer", "ice-candidate", "call-end", "call-reject"}

\* ------------------------------------------------------------ value shapes
NoDesc == [type |-> "none", from |-> "none", pc |-> 0, isVideo |-> FALSE, hasFlag |-> FALSE, re |-> 0]
NoCand == [from |-> "none", pc |-> 0, n |-> 0]

\* An offer of participant p's connection number pc
OfferOf(p, pc, isVideo) ==
  [type |-> "offer", from |-> p, pc |-> pc, isVideo |-> isVideo, hasFlag |-> TRUE, re |-> 0]
\* An answer of p's connection pc to the offer o
AnswerOf(p, pc, o) ==
  [type |-> "answer", from |-> p, pc |-> pc, isVideo |-> FALSE, hasFlag |-> FALSE, re |-> o.pc]

Sig(type, sender, desc, cand) ==
  [signal_type |-> type, sender_type |-> sender, desc |-> desc, cand |-> cand]

\* Media tracks: a microphone, camera or screen-capture track of acquisition n
Track(kind, src, n) == [kind |-> kind, src |-> src, n |-> n]
NoTrack == Track("none", "none", 0)

NewPc(senders, cls) ==
  [closed |-> FALSE, local |-> NoDesc, remote |-> NoDesc, applied |-> <<>>,
   senders |-> senders, cls |-> cls, failed |-> FALSE]

NoTask ==
  [op |-> "none", at |-> "none", cls |-> 0, isVideo |-> FALSE, pc |-> 0, dpc |-> 0,
   desc |-> NoDesc, i |-> 0, arr |-> <<>>, shared |-> FALSE, track |-> NoTrack,
   wantsVideo |-> FALSE, was |-> [sharing |-> FALSE, orig |-> NoTrack]]

VARIABLES
  mounted,                \* the hook each participant runs: "no" (no call view), "call"
                          \* (useWebRTCCall), "rtc" (useWebRTC), "gone" (unmounted)
  isCallActive, isRinging, localStream, connectionState, isScreenSharing,
  peerConnectionRef, pendingCandidatesRef, hasStartedRef, isCallerRef,
  originalVideoTrackRef,
  pcs,                    \* the RTCPeerConnection objects each participant created
  streams,                \* the MediaStream objects each participant created (track lists)
  acquired,               \* the media tracks each participant's browser handed out
  stopped,                \* the media tracks of each participant that were stopped
  tasks,                  \* asynchronous functions in flight
  inRoom,                 \* whether the transport has each participant's socket in the room
  inbox, wired,           \* the signal transport: per-participant delivery queue
  offerStore,             \* latest offer each role sent, as the offer lookup sees it
  sent,                   \* signals each participant emitted, by type
  onCallEnded,            \* times the onCallEnded callback fired
  used, limit,            \* commands invoked so far, and how many the environment may invoke
  incomingCall,           \* IncomingCallNotification state
  onended,                \* the screen tracks with an onended handler, each with the
                          \* localStream of the toggleScreenShare closure it calls
  isAudioMuted, isVideoOff,   \* the muted and video-off indicators
  disabled,               \* the media tracks whose enabled flag is false
  error, toast,           \* useWebRTCCall: its error state; the toast last shown and
                          \* how many were shown
  browser,                \* what each participant's page runs in: whether its origin passes
                          \* the auto-start effect's isSecure test, and whether
                          \* navigator.mediaDevices.getUserMedia exists
  callStatus, incomingCallIsVideo,   \* useWebRTC: its state besides the refs
  onCallRejected, onIncomingCall,    \* useWebRTC: times its other callbacks fired
  hist,                   \* observations the properties are stated over
  bubble,                 \* a ChatBubble of the chat view: its props, its state, its timers
  roomsHook,              \* useRooms: its rooms list, its requests in flight, the table
  messagesHook            \* useMessages: its messages list, its fetch in flight, the table

hookVars ==
  <<isCallActive, isRinging, localStream, connectionState, isScreenSharing,
    peerConnectionRef, pendingCandidatesRef, hasStartedRef, isCallerRef,
    originalVideoTrackRef, pcs, streams, acquired, stopped, tasks,
    callStatus, incomingCallIsVideo, error, toast, onended,
    isAudioMuted, isVideoOff, disabled>>

callVars ==
  <<mounted, hookVars, inbox, wired, offerStore, sent, onCallEnded, onCallRejected,
    onIncomingCall, used, limit, incomingCall, browser, inRoom, hist>>
\* the chat view besides its calls
chatVars == <<bubble, roomsHook, messagesHook>>

vars == <<callVars, chatVars>>

\* ------------------------------------------------------------------ worlds
\* All the state one participant's code can touch, as one record, so that the
\* hook's functions compose; out collects the signals emitted in the step.
World(p) ==
  [self |-> p,
   isCallActive |-> isCallActive[p], isRinging |-> isRinging[p],
   localStream |-> localStream[p], connectionState |-> connectionState[p],
   isScreenSharing |-> isScreenSharing[p],
   peerConnectionRef |-> peerConnectionRef[p],
   pendingCandidatesRef |-> pendingCandidatesRef[p],
   hasStartedRef |-> hasStartedRef[p], isCallerRef |-> isCallerRef[p],
   originalVideoTrackRef |-> originalVideoTrackRef[p],
   pcs |-> pcs[p], streams |-> streams[p],
   acquired |-> acquired[p], stopped |-> stopped[p],
   tasks |-> tasks[p], out |-> <<>>, onCallEnded |-> onCallEnded[p],
   callStatus |-> callStatus[p], incomingCallIsVideo |-> incomingCallIsVideo[p],
   onCallRejected |-> onCallRejected[p], onIncomingCall |-> onIncomingCall[p],
   error |-> error[p], toast |-> toast[p], browser |-> browser[p],
   onended |-> onended[p],
   isAudioMuted |-> isAudioMuted[p], isVideoOff |-> isVideoOff[p],
   disabled |-> disabled[p], inRoom |-> inRoom[p]]

Range(s) == {s[i] : i \in DOMAIN s}

RECURSIVE CountType(_, _)
CountType(s, t) ==
  IF s = <<>> THEN 0
  ELSE (IF Head(s).signal_type = t THEN 1 ELSE 0) + CountType(Tail(s), t)

LastOffer(s, old) ==
  LET idx == {i \in DOMAIN s : s[i].signal_type = "offer"}
  IN IF idx = {} THEN old ELSE s[CHOOSE i \in idx : \A j \in idx : j <= i].desc

\* The transport relays a signal to every socket that is in the room, the
\* sender's included
Relay(p, out, popped) ==
  /\ inbox' = IF wired
              THEN [q \in Party |->
                      (IF popped /\ q = p THEN Tail(inbox[q]) ELSE inbox[q])
                        \o (IF inRoom'[q] THEN out ELSE <<>>)]
              ELSE inbox
  /\ offerStore' = [offerStore EXCEPT ![p] = LastOffer(out, @)]
  /\ sent' = [sent EXCEPT ![p] = [t \in SignalTypes |-> @[t] + CountType(out, t)]]

CommitFrom(p, w, popped) ==
  /\ isCallActive' = [isCallActive EXCEPT ![p] = w.isCallActive]
  /\ isRinging' = [isRinging EXCEPT ![p] = w.isRinging]
  /\ localStream' = [localStream EXCEPT ![p] = w.localStream]
  /\ connectionState' = [connectionState EXCEPT ![p] = w.connectionState]
  /\ isScreenSharing' = [isScreenSharing EXCEPT ![p] = w.isScreenSharing]
  /\ peerConnectionRef' = [peerConnectionRef EXCEPT ![p] = w.peerConnectionRef]
  /\ pendingCandidatesRef' = [pendingCandidatesRef EXCEPT ![p] = w.pendingCandidatesRef]
  /\ hasStartedRef' = [hasStartedRef EXCEPT ![p] = w.hasStartedRef]
  /\ isCallerRef' = [isCallerRef EXCEPT ![p] = w.isCallerRef]
  /\ originalVideoTrackRef' = [originalVideoTrackRef EXCEPT ![p] = w.originalVideoTrackRef]
  /\ pcs' = [pcs EXCEPT ![p] = w.pcs]
  /\ streams' = [streams EXCEPT ![p] = w.streams]
  /\ acquired' = [acquired EXCEPT ![p] = w.acquired]
  /\ stopped' = [stopped EXCEPT ![p] = w.stopped]
  /\ limit' = limit
  /\ browser' = browser
  /\ UNCHANGED chatVars
  /\ error' = [error EXCEPT ![p] = w.error]
  /\ toast' = [toast EXCEPT ![p] = w.toast]
  /\ onended' = [onended EXCEPT ![p] = w.onended]
  /\ isAudioMuted' = [isAudioMuted EXCEPT ![p] = w.isAudioMuted]
  /\ isVideoOff' = [isVideoOff EXCEPT ![p] = w.isVideoOff]
  /\ disabled' = [disabled EXCEPT ![p] = w.disabled]
  /\ inRoom' = [inRoom EXCEPT ![p] = w.inRoom]
  /\ tasks' = [tasks EXCEPT ![p] = w.tasks]
  /\ onCallEnded' = [onCallEnded EXCEPT ![p] = w.onCallEnded]
  /\ callStatus' = [callStatus EXCEPT ![p] = w.callStatus]
  /\ incomingCallIsVideo' = [incomingCallIsVideo EXCEPT ![p] = w.incomingCallIsVideo]
  /\ onCallRejected' = [onCallRejected EXCEPT ![p] = w.onCallRejected]
  /\ onIncomingCall' = [onIncomingCall EXCEPT ![p] = w.onIncomingCall]
  /\ Relay(p, w.out, popped)

Commit(p, w) == CommitFrom(p, w, FALSE)

\* ------------------------------------------------------- useWebRTCCall core
sendSignal(w, type, desc, cand) ==
  [w EXCEPT !.out = Append(@, Sig(type, w.self, desc, cand))]

\* pendingCandidatesRef.current = [] installs a new array: a drain loop that is
\* iterating the old array keeps it
DetachDrains(ts, arr) ==
  [t \in DOMAIN ts |->
     IF ts[t].at = "drain" /\ ts[t].shared
     THEN [ts[t] EXCEPT !.arr = arr, !.shared = FALSE]
     ELSE ts[t]]

ClearPending(w) ==
  [w EXCEPT !.tasks = DetachDrains(@, w.pendingCandidatesRef),
            !.pendingCandidatesRef = <<>>]

\* a cleanup that leaves the start-once flag and the role as they are
cleanup_keepsRole(w) ==
  IF w.peerConnectionRef # 0
  THEN ClearPending([w EXCEPT !.pcs[w.peerConnectionRef].closed = TRUE,
                              !.peerConnectionRef = 0])
  ELSE ClearPending(w)

cleanup(w) ==
  LET w1 == IF w.peerConnectionRef # 0
            THEN [w EXCEPT !.pcs[w.peerConnectionRef].closed = TRUE,
                           !.peerConnectionRef = 0]
            ELSE w
      w2 == ClearPending(w1)
  IN [w2 EXCEPT !.hasStartedRef = FALSE, !.isCallerRef = FALSE]

\* cls: the localStream of the render the calling closure belongs to
stopLocalStream(w, cls) ==
  IF cls # 0
  THEN [w EXCEPT !.stopped = @ \cup Range(w.streams[cls]), !.localStream = 0]
  ELSE w

resetCallState(w, cls) ==
  LET w1 == stopLocalStream(cleanup(w), cls)
  IN [w1 EXCEPT !.isCallActive = FALSE, !.isRinging = FALSE,
                !.connectionState = "disconnected"]

FireCallEnded(w) == [w EXCEPT !.onCallEnded = @ + 1]

showToast(w, title) == [w EXCEPT !.toast = [title |-> title, n |-> @.n + 1]]

\* getUserMedia up to its await: setError(null), and without
\* navigator.mediaDevices.getUserMedia the error is thrown, caught, surfaced
\* and thrown on before the browser is asked for anything
requestMedia(w) ==
  IF w.browser.mediaDevices THEN [w EXCEPT !.error = "none"]
  ELSE showToast([w EXCEPT !.error = "media"], "Media Access Error")

\* getUserMedia's catch block: setError(errorMessage), toast, throw
mediaFailed(w) == showToast([w EXCEPT !.error = "media"], "Media Access Error")

\* getUserMedia resolved: a new stream with an audio track, and a camera track
\* when video was asked for; setLocalStream(stream)
getUserMedia(w, isVideo) ==
  LET n == Len(w.streams) + 1
      trs == IF isVideo THEN <<Track("audio", "mic", n), Track("video", "cam", n)>>
             ELSE <<Track("audio", "mic", n)>>
  IN [w EXCEPT !.streams = Append(@, trs), !.localStream = n,
               !.acquired = @ \cup Range(trs)]

\* track.enabled = !track.enabled on every track of the given kind in the stream
FlipEnabled(w, sid, kind) ==
  LET trs == {tr \in Range(w.streams[sid]) : tr.kind = kind}
  IN [w EXCEPT !.disabled = (@ \ trs) \cup (trs \ @)]

\* track.enabled = on on every track of the given kind in the stream
SetEnabled(w, sid, kind, on) ==
  LET trs == {tr \in Range(w.streams[sid]) : tr.kind = kind}
  IN [w EXCEPT !.disabled = IF on THEN @ \ trs ELSE @ \cup trs]

\* useWebRTCCall.toggleAudio / toggleVideo
toggleAudio(w) ==
  IF w.localStream = 0 THEN w
  ELSE [FlipEnabled(w, w.localStream, "audio") EXCEPT !.isAudioMuted = ~@]

toggleVideo(w) ==
  IF w.localStream = 0 THEN w
  ELSE [FlipEnabled(w, w.localStream, "video") EXCEPT !.isVideoOff = ~@]

\* useWebRTC.toggleAudio / toggleVideo
rtc_toggleAudio(w) ==
  IF w.localStream = 0 THEN w
  ELSE [SetEnabled(w, w.localStream, "audio", w.isAudioMuted) EXCEPT !.isAudioMuted = ~@]

rtc_toggleVideo(w) ==
  IF w.localStream = 0 THEN w
  ELSE [SetEnabled(w, w.localStream, "video", w.isVideoOff) EXCEPT !.isVideoOff = ~@]

\* useWebRTC.getUserMedia resolved: the stream, and setIsVideoOff(!video)
rtc_getUserMedia(w, isVideo) == [getUserMedia(w, isVideo) EXCEPT !.isVideoOff = ~isVideo]

\* new RTCPeerConnection, the stream's tracks added; the ref is overwritten
createPeerConnection(w, sid, cls) ==
  [w EXCEPT !.pcs = Append(@, NewPc(w.streams[sid], cls)),
            !.peerConnectionRef = Len(w.pcs) + 1]

\* pc.addIceCandidate(c): applied when the connection is open and has a remote
\* description, rejected (and the error logged) otherwise
addIceCandidate(w, pc, c) ==
  IF ~w.pcs[pc].closed /\ w.pcs[pc].remote # NoDesc
  THEN [w EXCEPT !.pcs[pc].applied = Append(@, c)]
  ELSE w

FreeSlots(ts) == {t \in DOMAIN ts : ts[t].op = "none"}
FirstFree(ts) == CHOOSE t \in FreeSlots(ts) : \A u \in FreeSlots(ts) : t <= u

Spawn(w, task) == [w EXCEPT !.tasks[FirstFree(w.tasks)] = task]
Finish(w, t) == [w EXCEPT !.tasks[t] = NoTask]

\* The drain loop of applyPendingCandidates is over; go on with the caller
AfterDrain(w, t) ==
  IF w.tasks[t].op = "acceptCall"
  THEN [w EXCEPT !.tasks[t] = [@ EXCEPT !.at = "negotiate", !.dpc = 0, !.i = 0,
                                        !.arr = <<>>, !.shared = FALSE]]
  ELSE Finish(w, t)

\* applyPendingCandidates, up to its first await: the connection is the one the
\* ref holds now; the loop iterates the array the ref holds now
applyPendingCandidates(w, t) ==
  LET r == w.peerConnectionRef IN
  IF r = 0 \/ w.pcs[r].remote = NoDesc THEN AfterDrain(w, t)
  ELSE IF w.pendingCandidatesRef = <<>> THEN AfterDrain(ClearPending(w), t)
  ELSE LET w1 == addIceCandidate(w, r, w.pendingCandidatesRef[1])
       IN [w1 EXCEPT !.tasks[t] = [@ EXCEPT !.at = "drain", !.dpc = r, !.i = 1,
                                            !.arr = <<>>, !.shared = TRUE]]

\* one more turn of the loop: the next element, or the end of the array
drainStep(w, t) ==
  LET tk == w.tasks[t]
      arr == IF tk.shared THEN w.pendingCandidatesRef ELSE tk.arr
  IN IF tk.i < Len(arr)
     THEN LET w1 == addIceCandidate(w, tk.dpc, arr[tk.i + 1])
          IN [w1 EXCEPT !.tasks[t].i = tk.i + 1]
     ELSE AfterDrain(ClearPending(w), t)

\* a startCall without the start-once guard
startCallBody_unguarded(w, isVideo, cls) ==
  Spawn([w EXCEPT !.hasStartedRef = TRUE, !.isCallerRef = TRUE, !.isRinging = TRUE],
        [NoTask EXCEPT !.op = "startCall", !.at = "gum", !.cls = cls, !.isVideo = isVideo])

\* startCall up to its first await (getUserMedia)
startCallBody(w, isVideo, cls) ==
  IF w.hasStartedRef THEN w
  ELSE Spawn(requestMedia([w EXCEPT !.hasStartedRef = TRUE, !.isCallerRef = TRUE,
                                    !.isRinging = TRUE]),
             [NoTask EXCEPT !.op = "startCall", !.at = "gum", !.cls = cls,
                            !.isVideo = isVideo])

\* acceptCall up to its first await (the offer lookup)
acceptCallBody(w, isVideo, cls) ==
  IF w.hasStartedRef THEN w
  ELSE Spawn(w, [NoTask EXCEPT !.op = "acceptCall", !.at = "lookup", !.cls = cls,
                               !.isVideo = isVideo, !.wantsVideo = isVideo])

\* an acceptCall that starts a call of its own whatever the lookup returned
acceptCallLookedUp_blind(w, t, r) ==
  startCallBody(Finish(w, t), w.tasks[t].isVideo, w.tasks[t].cls)

\* an acceptCall that gives up when the lookup finds no offer
acceptCallLookedUp_giveup(w, t, r) ==
  IF r = NoDesc THEN Finish(w, t)
  ELSE [w EXCEPT !.hasStartedRef = TRUE, !.isCallerRef = FALSE,
                 !.isRinging = FALSE, !.isCallActive = TRUE,
                 !.tasks[t] = [@ EXCEPT !.at = "gum", !.desc = r,
                                        !.isVideo = IF r.hasFlag THEN r.isVideo
                                                    ELSE w.tasks[t].isVideo]]

\* an acceptCall that acquires what its argument says, whatever the offer says
acceptCallLookedUp_wish(w, t, r) ==
  IF r = NoDesc THEN startCallBody(Finish(w, t), w.tasks[t].isVideo, w.tasks[t].cls)
  ELSE [w EXCEPT !.hasStartedRef = TRUE, !.isCallerRef = FALSE,
                 !.isRinging = FALSE, !.isCallActive = TRUE,
                 !.tasks[t] = [@ EXCEPT !.at = "gum", !.desc = r]]

\* acceptCall after the lookup returned r (NoDesc: no offer, or the fetch failed)
acceptCallLookedUp(w, t, r) ==
  LET tk == w.tasks[t] IN
  IF r = NoDesc THEN startCallBody(Finish(w, t), tk.isVideo, tk.cls)
  ELSE [requestMedia(w) EXCEPT !.hasStartedRef = TRUE, !.isCallerRef = FALSE,
                 !.isRinging = FALSE, !.isCallActive = TRUE,
                 !.tasks[t] = [@ EXCEPT !.at = "gum", !.desc = r,
                                        !.isVideo = IF r.hasFlag THEN r.isVideo ELSE tk.isVideo]]

\* the catch block of startCall / acceptCall
catchError(w, t) == Finish(FireCallEnded(resetCallState(w, w.tasks[t].cls)), t)

\* getUserMedia settled inside startCall / acceptCall
mediaSettled(w, t, ok) ==
  LET tk == w.tasks[t] IN
  IF ~ok THEN catchError(mediaFailed(w), t)
  ELSE LET w1 == getUserMedia(w, tk.isVideo)
           w2 == createPeerConnection(w1, w1.localStream, tk.cls)
       IN [w2 EXCEPT !.tasks[t] = [@ EXCEPT !.pc = w2.peerConnectionRef,
                                            !.at = IF tk.op = "startCall" THEN "negotiate"
                                                   ELSE "setRemote"]]

\* createOffer + setLocalDescription (startCall) or createAnswer +
\* setLocalDescription (acceptCall) settled; both reject on a closed connection
negotiated(w, t, ok) ==
  LET tk == w.tasks[t] IN
  IF ~ok \/ w.pcs[tk.pc].closed THEN catchError(w, t)
  ELSE LET d == IF tk.op = "startCall" THEN OfferOf(w.self, tk.pc, tk.isVideo)
                ELSE AnswerOf(w.self, tk.pc, tk.desc)
           w1 == [w EXCEPT !.pcs[tk.pc].local = d]
       IN Finish(sendSignal(w1, d.type, d, NoCand), t)

\* pc.setRemoteDescription(offer) settled inside acceptCall
remoteOfferSet(w, t, ok) ==
  LET tk == w.tasks[t] IN
  IF ~ok \/ w.pcs[tk.pc].closed THEN catchError(w, t)
  ELSE applyPendingCandidates([w EXCEPT !.pcs[tk.pc].remote = tk.desc], t)

\* pc.setRemoteDescription(answer) settled inside handleSignal: it is rejected
\* unless the connection is open with a local offer outstanding
remoteAnswerSet(w, t, ok) ==
  LET tk == w.tasks[t]
      pc == w.pcs[tk.pc]
  IN IF ~ok \/ pc.closed \/ pc.local.type # "offer" \/ pc.remote # NoDesc
     THEN Finish(w, t)
     ELSE applyPendingCandidates([w EXCEPT !.pcs[tk.pc].remote = tk.desc], t)

\* an endCall that tears down and tells the room nothing
endCall_quiet(w) == FireCallEnded(resetCallState(w, w.localStream))

endCall(w) ==
  FireCallEnded(resetCallState(sendSignal(w, "call-end", NoDesc, NoCand), w.localStream))

\* a handler of "offer" that gives way to the other side's offer
handleOffer_yields(w, signal) == [w EXCEPT !.isCallerRef = FALSE, !.isRinging = FALSE]

\* case "offer" of handleSignal: logged, nothing else, whether caller or not
handleOffer(w, signal) == w

\* the switch of handleSignal, up to its first await
signalSwitch(w, signal) ==
  IF signal.signal_type = "call-reject"
       THEN FireCallEnded(resetCallState([w EXCEPT !.isRinging = FALSE], w.localStream))
  ELSE IF signal.signal_type = "call-end"
       THEN FireCallEnded(resetCallState(w, w.localStream))
  ELSE IF signal.signal_type = "offer" THEN handleOffer(w, signal)
  ELSE IF signal.signal_type = "answer"
       THEN IF w.peerConnectionRef = 0 THEN w
            ELSE Spawn([w EXCEPT !.isRinging = FALSE, !.isCallActive = TRUE],
                       [NoTask EXCEPT !.op = "answer", !.at = "setRemoteAns",
                                      !.pc = w.peerConnectionRef, !.desc = signal.desc])
  ELSE IF signal.signal_type = "ice-candidate"
       THEN IF w.peerConnectionRef = 0 THEN w
            ELSE IF w.pcs[w.peerConnectionRef].remote # NoDesc
                 THEN addIceCandidate(w, w.peerConnectionRef, signal.cand)
                 ELSE [w EXCEPT !.pendingCandidatesRef = Append(@, signal.cand)]
  ELSE w

\* a handleSignal that runs the switch on every signal, the hook's own included
handleSignal_unfiltered(w, signal) == signalSwitch(w, signal)

\* handleSignal of useWebRTCCall: the hook's own signals are skipped
handleSignal(w, signal) ==
  IF signal.sender_type = w.self THEN w ELSE signalSwitch(w, signal)

\* pc.onconnectionstatechange with connectionState "failed"
connectionFailed(w, pc) ==
  LET w1 == [w EXCEPT !.pcs[pc].failed = TRUE, !.connectionState = "failed"]
  IN FireCallEnded(resetCallState(w1, w.pcs[pc].cls))

\* pc.onconnectionstatechange: the state is published; "failed" tears down
connectionStateChanged(w, pc, state) ==
  IF state = "failed" THEN connectionFailed(w, pc)
  ELSE [w EXCEPT !.connectionState = state]

\* socket.emit("join-room", roomId) / socket.emit("leave-room", roomId), on the
\* one socket the chat view, the notification and the call view share
joinRoom(w) == [w EXCEPT !.inRoom = TRUE]
leaveRoom(w) == [w EXCEPT !.inRoom = FALSE]

\* the cleanup of the signal subscription effect: socket.off, leave-room
unsubscribe(w) == leaveRoom(w)

\* the unmount effect holds the resetCallState of the first render (localStream null)
unmount(w) == resetCallState(w, 0)

\* a notification that takes an offer without the flag for a video call
notify_absentIsVideo(cur, me, signal) ==
  LET shown == IF signal.sender_type # me /\ signal.signal_type = "offer"
               THEN (IF signal.desc.hasFlag => signal.desc.isVideo THEN "video" ELSE "audio")
               ELSE cur
  IN IF signal.signal_type \in {"call-end", "call-reject"} THEN "none" ELSE shown

\* IncomingCallNotification.handleSignal
notify(cur, me, signal) ==
  LET shown == IF signal.sender_type # me /\ signal.signal_type = "offer"
               THEN (IF signal.desc.hasFlag /\ signal.desc.isVideo THEN "video" ELSE "audio")
               ELSE cur
  IN IF signal.signal_type \in {"call-end", "call-reject"} THEN "none" ELSE shown

\* --------------------------------------------------------- toggleScreenShare
VideoIdx(trs) == {i \in DOMAIN trs : trs[i].kind = "video"}
FirstVideo(trs) == CHOOSE i \in VideoIdx(trs) : \A j \in VideoIdx(trs) : i <= j
Without(trs, tr) == SelectSeq(trs, LAMBDA x : x # tr)
With(trs, tr) == IF tr \in Range(trs) THEN trs ELSE Append(trs, tr)

\* setLocalStream(new MediaStream(localStream.getTracks())), localStream being
\* the stream object sid of the closure, just edited in place to hold trs
republish(w, sid, trs) ==
  [w EXCEPT !.streams = Append([@ EXCEPT ![sid] = trs], trs),
            !.localStream = Len(w.streams) + 1]

\* screenTrack.onended = () => { toggleScreenShare(); }, the toggleScreenShare
\* being the one that is running (its localStream is sid, its isScreenSharing false)
setOnended(w, tr, sid) == [w EXCEPT !.onended = @ \cup {[track |-> tr, cls |-> sid]}]

\* the catch block of toggleScreenShare
shareFailed(w, t) ==
  Finish(showToast([w EXCEPT !.isScreenSharing = FALSE], "Screen Share Error"), t)

\* getDisplayMedia settled (ok: a screen track; otherwise cancelled or denied).
\* lists: whether a closed connection still lists its senders (browser dependent)
displaySettled(w, t, ok, lists) ==
  LET tk == w.tasks[t]
      pc == w.pcs[tk.pc]
      screenTrack == Track("video", "screen", tk.i)
      senders == IF pc.closed /\ ~lists THEN <<>> ELSE pc.senders
  IN IF ~ok THEN shareFailed(w, t)
     ELSE IF VideoIdx(senders) # {}
     THEN LET w1 == [w EXCEPT !.originalVideoTrackRef = senders[FirstVideo(senders)],
                              !.acquired = @ \cup {screenTrack}]
          IN [w1 EXCEPT !.tasks[t] = [@ EXCEPT !.at = "replace", !.track = screenTrack]]
     ELSE IF pc.closed THEN shareFailed([w EXCEPT !.acquired = @ \cup {screenTrack}], t)
     ELSE LET trs == With(w.streams[tk.cls], screenTrack)
              w1 == [w EXCEPT !.pcs[tk.pc].senders = Append(@, screenTrack),
                              !.acquired = @ \cup {screenTrack}]
          IN Finish([setOnended(republish(w1, tk.cls, trs), screenTrack, tk.cls)
                       EXCEPT !.isScreenSharing = TRUE], t)

\* an enable path that adds the screen track to the preview and keeps the camera in it
replaceSettled_additive(w, t, ok) ==
  LET tk == w.tasks[t]
      pc == w.pcs[tk.pc]
  IN IF ~ok \/ pc.closed \/ VideoIdx(pc.senders) = {} THEN shareFailed(w, t)
     ELSE LET trs == With(w.streams[tk.cls], tk.track)
              w1 == [w EXCEPT !.pcs[tk.pc].senders[FirstVideo(pc.senders)] = tk.track]
          IN Finish([republish(w1, tk.cls, trs) EXCEPT !.isScreenSharing = TRUE], t)

\* videoSender.replaceTrack(screenTrack) settled on the enable path
replaceSettled(w, t, ok) ==
  LET tk == w.tasks[t]
      pc == w.pcs[tk.pc]
  IN IF ~ok \/ pc.closed \/ VideoIdx(pc.senders) = {} THEN shareFailed(w, t)
     ELSE LET trs == With(Without(w.streams[tk.cls], w.originalVideoTrackRef), tk.track)
              w1 == [w EXCEPT !.pcs[tk.pc].senders[FirstVideo(pc.senders)] = tk.track]
          IN IF w.originalVideoTrackRef = NoTrack THEN shareFailed(w1, t)
             ELSE Finish([setOnended(republish(w1, tk.cls, trs), tk.track, tk.cls)
                            EXCEPT !.isScreenSharing = TRUE], t)

\* the disable path after videoSender.replaceTrack(original) settled (i = 1), or
\* with no video sender to restore (i = 0)
restoreSettled(w, t, ok) ==
  LET tk == w.tasks[t]
      pc == w.pcs[tk.pc]
      replaces == tk.i = 1
      old == w.streams[tk.cls]
      w1 == IF replaces /\ VideoIdx(pc.senders) # {}
            THEN [w EXCEPT !.pcs[tk.pc].senders[FirstVideo(pc.senders)] = tk.track]
            ELSE w
      w2 == IF VideoIdx(old) # {}
            THEN [w1 EXCEPT !.stopped = @ \cup {old[FirstVideo(old)]}]
            ELSE w1
      cut == IF VideoIdx(old) # {} THEN Without(old, old[FirstVideo(old)]) ELSE old
  IN IF replaces /\ (~ok \/ pc.closed) THEN shareFailed(w, t)
     ELSE IF w.originalVideoTrackRef = NoTrack
     THEN shareFailed([w2 EXCEPT !.streams[tk.cls] = cut], t)
     ELSE Finish([republish(w2, tk.cls, With(cut, w.originalVideoTrackRef))
                    EXCEPT !.originalVideoTrackRef = NoTrack,
                           !.isScreenSharing = FALSE], t)

\* toggleScreenShare up to its first await; sharing and cls are the
\* isScreenSharing and localStream of the closure, n numbers the capture
toggleScreenShare(w, sharing, cls, n) ==
  LET pc == w.peerConnectionRef
      t == FirstFree(w.tasks)
      hasSender == VideoIdx(w.pcs[pc].senders) # {}
      was == [sharing |-> w.isScreenSharing, orig |-> w.originalVideoTrackRef]
      w1 == Spawn(w, [NoTask EXCEPT !.op = "toggleScreenShare", !.at = "restore",
                                    !.cls = cls, !.pc = pc, !.was = was,
                                    !.track = w.originalVideoTrackRef,
                                    !.i = IF hasSender THEN 1 ELSE 0])
  IN IF pc = 0 \/ cls = 0 THEN w
     ELSE IF ~sharing
     THEN Spawn(w, [NoTask EXCEPT !.op = "toggleScreenShare", !.at = "display",
                                  !.cls = cls, !.pc = pc, !.i = n, !.was = was])
     ELSE IF w.originalVideoTrackRef = NoTrack
     THEN [w EXCEPT !.isScreenSharing = FALSE]
     ELSE IF hasSender THEN w1 ELSE restoreSettled(w1, t, TRUE)

\* ------------------------------------------------------------ useWebRTC
\* The older hook keeps its stream in localStreamRef, set and cleared together
\* with the localStream state: the two are one variable here.
rtc_cleanup(w) ==
  LET w1 == IF w.localStream # 0
            THEN [w EXCEPT !.stopped = @ \cup Range(w.streams[w.localStream]),
                           !.localStream = 0]
            ELSE w
      w2 == IF w1.peerConnectionRef # 0
            THEN [w1 EXCEPT !.pcs[w1.peerConnectionRef].closed = TRUE,
                            !.peerConnectionRef = 0]
            ELSE w1
  IN ClearPending(w2)

\* closes the connection the ref holds, then installs a new one
rtc_createPeerConnection(w) ==
  LET w1 == IF w.peerConnectionRef # 0
            THEN [w EXCEPT !.pcs[w.peerConnectionRef].closed = TRUE]
            ELSE w
  IN [w1 EXCEPT !.pcs = Append(@, NewPc(<<>>, 0)),
                !.peerConnectionRef = Len(w.pcs) + 1]

rtc_idle(w) == [rtc_cleanup(w) EXCEPT !.callStatus = "idle"]

\* startCall up to its first await (cleanupSignals)
rtc_startCall(w, isVideo) ==
  Spawn(w, [NoTask EXCEPT !.op = "rtc_startCall", !.at = "cleanupSignals",
                          !.isVideo = isVideo])

\* cleanupSignals settled (it swallows its errors): cleanup, calling, getUserMedia
rtc_signalsCleaned(w, t) ==
  [rtc_cleanup(w) EXCEPT !.callStatus = "calling", !.tasks[t].at = "gum"]

\* the catch block of startCall / answerCall
rtc_catch(w, t) == Finish(rtc_idle(w), t)

\* getUserMedia settled in startCall: connection created, tracks added, createOffer
\* getUserMedia settled in answerCall: tracks added to the connection read at
\* the call (addTrack throws on a closed connection), createAnswer
rtc_mediaSettled(w, t, ok) ==
  LET tk == w.tasks[t]
      w1 == rtc_getUserMedia(w, tk.isVideo)
      w2 == IF tk.op = "rtc_startCall" THEN rtc_createPeerConnection(w1) ELSE w1
      pc == IF tk.op = "rtc_startCall" THEN w2.peerConnectionRef ELSE tk.pc
  IN IF ~ok THEN rtc_catch(w, t)
     ELSE IF w2.pcs[pc].closed THEN rtc_catch(w2, t)
     ELSE [w2 EXCEPT !.pcs[pc].senders = @ \o w2.streams[w2.localStream],
                     !.tasks[t] = [@ EXCEPT !.at = "negotiate", !.pc = pc]]

\* createOffer / createAnswer + setLocalDescription settled; the signal is
\* handed to the database, and the function waits for the insert
rtc_negotiated(w, t, ok) ==
  LET tk == w.tasks[t]
      pc == w.pcs[tk.pc]
      d == IF tk.op = "rtc_startCall" THEN OfferOf(w.self, tk.pc, tk.isVideo)
           ELSE AnswerOf(w.self, tk.pc, pc.remote)
  IN IF ~ok \/ pc.closed \/ (tk.op = "rtc_answerCall" /\ pc.remote.type # "offer")
     THEN rtc_catch(w, t)
     ELSE LET w1 == sendSignal([w EXCEPT !.pcs[tk.pc].local = d], d.type, d, NoCand)
          IN [w1 EXCEPT !.tasks[t].at = "sent"]

\* the drain loop of answerCall ended
rtc_drained(w, t) == Finish([ClearPending(w) EXCEPT !.callStatus = "connected"], t)

\* the insert settled: startCall is done; answerCall adds the pending candidates
\* to its connection; endCall and rejectCall clean up
rtc_sent(w, t) ==
  LET tk == w.tasks[t] IN
  IF tk.op = "rtc_startCall" THEN Finish(w, t)
  ELSE IF tk.op = "rtc_endCall"
  THEN Finish([rtc_idle(w) EXCEPT !.onCallEnded = @ + 1], t)
  ELSE IF tk.op = "rtc_rejectCall" THEN Finish(rtc_idle(w), t)
  ELSE IF w.pendingCandidatesRef = <<>> THEN rtc_drained(w, t)
  ELSE LET w1 == addIceCandidate(w, tk.pc, w.pendingCandidatesRef[1])
       IN [w1 EXCEPT !.tasks[t] = [@ EXCEPT !.at = "drain", !.dpc = tk.pc, !.i = 1,
                                            !.shared = TRUE]]

rtc_drainStep(w, t) ==
  LET tk == w.tasks[t]
      arr == IF tk.shared THEN w.pendingCandidatesRef ELSE tk.arr
  IN IF tk.i < Len(arr)
     THEN LET w1 == addIceCandidate(w, tk.dpc, arr[tk.i + 1])
          IN [w1 EXCEPT !.tasks[t].i = tk.i + 1]
     ELSE rtc_drained(w, t)

\* answerCall up to its first await; video is the incomingCallIsVideo of the closure
rtc_answerCall(w, video) ==
  IF w.peerConnectionRef = 0 THEN w
  ELSE Spawn(w, [NoTask EXCEPT !.op = "rtc_answerCall", !.at = "gum",
                               !.pc = w.peerConnectionRef, !.isVideo = video])

rtc_rejectCall(w) ==
  Spawn(sendSignal(w, "call-reject", NoDesc, NoCand),
        [NoTask EXCEPT !.op = "rtc_rejectCall", !.at = "sent"])

rtc_endCall(w) ==
  Spawn(sendSignal(w, "call-end", NoDesc, NoCand),
        [NoTask EXCEPT !.op = "rtc_endCall", !.at = "sent"])

\* handleSignal of useWebRTC, up to its first await
rtc_handleSignal(w, signal) ==
  IF signal.sender_type = w.self THEN w
  ELSE IF signal.signal_type = "offer"
       THEN LET w1 == rtc_createPeerConnection(w)
            IN Spawn(w1, [NoTask EXCEPT !.op = "rtc_offer", !.at = "setRemote",
                                        !.pc = w1.peerConnectionRef, !.desc = signal.desc])
  ELSE IF signal.signal_type = "answer"
       THEN IF w.peerConnectionRef # 0
               /\ w.pcs[w.peerConnectionRef].local.type = "offer"
               /\ w.pcs[w.peerConnectionRef].remote = NoDesc
            THEN Spawn(w, [NoTask EXCEPT !.op = "rtc_answer", !.at = "setRemote",
                                         !.pc = w.peerConnectionRef, !.desc = signal.desc])
            ELSE w
  ELSE IF signal.signal_type = "ice-candidate"
       THEN IF signal.cand = NoCand THEN w
            ELSE IF w.peerConnectionRef # 0 /\ w.pcs[w.peerConnectionRef].remote # NoDesc
                 THEN addIceCandidate(w, w.peerConnectionRef, signal.cand)
                 ELSE [w EXCEPT !.pendingCandidatesRef = Append(@, signal.cand)]
  ELSE IF signal.signal_type = "call-end"
       THEN [rtc_idle(w) EXCEPT !.onCallEnded = @ + 1]
  ELSE IF signal.signal_type = "call-reject"
       THEN [rtc_idle(w) EXCEPT !.onCallRejected = @ + 1]
  ELSE w

\* a handler that goes on to answer the offer it has just applied
rtc_remoteSet_autoanswer(w, t, ok) ==
  LET tk == w.tasks[t]
      w1 == [w EXCEPT !.pcs[tk.pc].remote = tk.desc]
  IN IF ~ok \/ w.pcs[tk.pc].closed THEN Finish(w, t)
     ELSE IF tk.op = "rtc_offer"
     THEN [w1 EXCEPT !.callStatus = "receiving",
                     !.tasks[t] = [NoTask EXCEPT !.op = "rtc_answerCall", !.at = "gum",
                                                 !.pc = tk.pc,
                                                 !.isVideo = tk.desc.isVideo]]
     ELSE Finish([w1 EXCEPT !.callStatus = "connected"], t)

\* pc.setRemoteDescription settled inside handleSignal (offer or answer)
rtc_remoteSet(w, t, ok) ==
  LET tk == w.tasks[t]
      pc == w.pcs[tk.pc]
      fits == IF tk.op = "rtc_offer" THEN pc.local = NoDesc /\ pc.remote = NoDesc
              ELSE pc.local.type = "offer" /\ pc.remote = NoDesc
      w1 == [w EXCEPT !.pcs[tk.pc].remote = tk.desc]
  IN IF ~ok \/ pc.closed \/ ~fits THEN Finish(w, t)
     ELSE IF tk.op = "rtc_offer"
     THEN Finish([w1 EXCEPT !.incomingCallIsVideo = tk.desc.hasFlag /\ tk.desc.isVideo,
                            !.callStatus = "receiving",
                            !.onIncomingCall = @ + 1], t)
     ELSE Finish([w1 EXCEPT !.callStatus = "connected"], t)

\* pc.oniceconnectionstatechange: "connected", or "disconnected" / "failed"
rtc_iceConnectionState(w, pc, state) ==
  IF state = "connected" THEN [w EXCEPT !.callStatus = "connected"]
  ELSE LET w1 == [w EXCEPT !.pcs[pc].failed = (state = "failed")]
       IN [rtc_idle(w1) EXCEPT !.onCallEnded = @ + 1]

\* the subscription effect's cleanup: unsubscribe and cleanup
rtc_unmount(w) == rtc_cleanup(w)

\* ------------------------------------------------------------- environment
Use(p, f) == used' = [used EXCEPT ![p][f] = @ + 1]

\* hist[p].last: the operation of p that acted last, when it is one the
\* properties speak of; hist[p].queued: the candidates that were put on p's
\* pending queue, with the connection the ref held
Observed == {"self", "endCall", "catch", "failed", "unmount", "rejectCall", "call-end", "call-reject"}
Seen(op) == IF op \in Observed \cup limit.note THEN op ELSE "other"
\* hist[q].raced: the two participants were callers at the same time
Raced == limit.watch /\ \A q \in Party : isCallerRef'[q]
Saw(p, op, queued) ==
  hist' = [q \in Party |->
             [last |-> IF q = p THEN Seen(op) ELSE hist[q].last,
              queued |-> IF q = p THEN queued ELSE hist[q].queued,
              raced |-> hist[q].raced \/ Raced]]
Note(p, op) == Saw(p, op, hist[p].queued)

HasFree(p) == FreeSlots(tasks[p]) # {}
At(p, t, ops, at) == tasks[p][t].op \in ops /\ tasks[p][t].at = at

\* what the offer lookup can return to p besides nothing: the latest offer of
\* the other role (any offer at all, when the room is not modelled)
Visible(p) ==
  IF wired THEN {offerStore[Other(p)]} \ {NoDesc}
  ELSE {OfferOf(Other(p), 1, TRUE)}

\* the signals a room member can put on the channel towards p; candidates are
\* numbered in arrival order
Arrivals(p) ==
  {Sig(t, s, NoDesc, NoCand) : t \in {"call-end", "call-reject"}, s \in Party}
  \cup {Sig("offer", s, OfferOf(s, 1, TRUE), NoCand) : s \in Party}
  \cup {Sig("answer", s, AnswerOf(s, 1, OfferOf(Other(s), 1, TRUE)), NoCand) : s \in Party}
  \cup {Sig("ice-candidate", s, NoDesc, [from |-> s, pc |-> 1, n |-> used[p].recv + 1]) : s \in Party}

\* ------------------------------------------------- actions of useWebRTCCall
StartCall(p, isVideo) ==
  /\ mounted[p] = "call" /\ used[p].cmd < limit.cmd /\ HasFree(p)
  /\ Commit(p, startCallBody(World(p), isVideo, localStream[p]))
  /\ Use(p, "cmd") /\ Note(p, "startCall")
  /\ UNCHANGED <<mounted, wired, incomingCall>>

AcceptCall(p, isVideo) ==
  /\ mounted[p] = "call" /\ used[p].cmd < limit.cmd /\ HasFree(p)
  /\ Commit(p, acceptCallBody(World(p), isVideo, localStream[p]))
  /\ Use(p, "cmd") /\ Note(p, "acceptCall")
  /\ UNCHANGED <<mounted, wired, incomingCall>>

Step(p, w, op) ==
  /\ Commit(p, w) /\ Note(p, op)
  /\ UNCHANGED <<mounted, wired, incomingCall, used>>

LookupReturns(p, t, r) ==
  /\ At(p, t, {"acceptCall"}, "lookup")
  /\ Step(p, acceptCallLookedUp(World(p), t, r), IF r = NoDesc THEN "fallback" ELSE "lookup")

MediaSettles(p, t, ok) ==
  /\ At(p, t, {"startCall", "acceptCall"}, "gum")
  /\ ok => browser[p].mediaDevices
  /\ Step(p, mediaSettled(World(p), t, ok), IF ok THEN "media" ELSE "catch")

NegotiationSettles(p, t, ok) ==
  /\ At(p, t, {"startCall", "acceptCall"}, "negotiate")
  /\ Step(p, negotiated(World(p), t, ok),
          IF ok /\ ~pcs[p][tasks[p][t].pc].closed THEN "negotiated" ELSE "catch")

RemoteOfferSettles(p, t, ok) ==
  /\ At(p, t, {"acceptCall"}, "setRemote")
  /\ Step(p, remoteOfferSet(World(p), t, ok),
          IF ok /\ ~pcs[p][tasks[p][t].pc].closed THEN "remote" ELSE "catch")

RemoteAnswerSettles(p, t, ok) ==
  /\ At(p, t, {"answer"}, "setRemoteAns")
  /\ Step(p, remoteAnswerSet(World(p), t, ok), "remote")

DrainStep(p, t) ==
  /\ At(p, t, {"acceptCall", "answer"}, "drain")
  /\ Step(p, drainStep(World(p), t), "drain")

EndCall(p) ==
  /\ mounted[p] = "call" /\ used[p].end < limit.end
  /\ Commit(p, endCall(World(p)))
  /\ Use(p, "end") /\ Note(p, "endCall")
  /\ UNCHANGED <<mounted, wired, incomingCall>>

ConnectionFails(p, pc) ==
  /\ pc \in DOMAIN pcs[p]
  /\ ~pcs[p][pc].closed /\ ~pcs[p][pc].failed
  /\ pcs[p][pc].local # NoDesc /\ pcs[p][pc].remote # NoDesc
  /\ Step(p, connectionFailed(World(p), pc), "failed")

Unmount(p) ==
  /\ mounted[p] = "call"
  /\ Commit(p, unsubscribe(unmount(World(p))))
  /\ mounted' = [mounted EXCEPT ![p] = "gone"]
  /\ Note(p, "unmount")
  /\ UNCHANGED <<wired, incomingCall, used>>

\* the connection of useWebRTCCall reports a connection state
ConnectionState(p, pc, state) ==
  /\ mounted[p] = "call" /\ pc \in DOMAIN pcs[p]
  /\ ~pcs[p][pc].closed /\ ~pcs[p][pc].failed
  /\ pcs[p][pc].local # NoDesc /\ pcs[p][pc].remote # NoDesc
  /\ state # connectionState[p]
  /\ Step(p, connectionStateChanged(World(p), pc, state),
          IF state = "failed" THEN "failed" ELSE "transient")

\* the connection gathers a local candidate: pc.onicecandidate
IceGather(p, pc) ==
  /\ pc \in DOMAIN pcs[p] /\ used[p].cand < limit.cand
  /\ ~pcs[p][pc].closed /\ pcs[p][pc].local # NoDesc
  /\ Commit(p, sendSignal(World(p), "ice-candidate", NoDesc,
                          [from |-> p, pc |-> pc, n |-> used[p].cand + 1]))
  /\ Use(p, "cand") /\ Note(p, "gather")
  /\ UNCHANGED <<mounted, wired, incomingCall>>

ToggleScreenShare(p) ==
  /\ mounted[p] = "call" /\ used[p].toggle < limit.toggle /\ HasFree(p)
  /\ Commit(p, toggleScreenShare(World(p), isScreenSharing[p], localStream[p],
                                 used[p].toggle + 1))
  /\ Use(p, "toggle") /\ Note(p, "toggle")
  /\ UNCHANGED <<mounted, wired, incomingCall>>

DisplaySettles(p, t, ok, lists) ==
  /\ At(p, t, {"toggleScreenShare"}, "display")
  /\ ~pcs[p][tasks[p][t].pc].closed => lists
  /\ Step(p, displaySettled(World(p), t, ok, lists), "display")

ReplaceSettles(p, t, ok) ==
  /\ At(p, t, {"toggleScreenShare"}, "replace")
  /\ Step(p, replaceSettled(World(p), t, ok), "shared")

RestoreSettles(p, t, ok) ==
  /\ At(p, t, {"toggleScreenShare"}, "restore")
  /\ Step(p, restoreSettled(World(p), t, ok), "restored")

ToggleAudio(p) ==
  /\ mounted[p] = "call" /\ used[p].toggle < limit.toggle
  /\ Commit(p, toggleAudio(World(p)))
  /\ Use(p, "toggle") /\ Note(p, "toggleAudio")
  /\ UNCHANGED <<mounted, wired, incomingCall>>

ToggleVideo(p) ==
  /\ mounted[p] = "call" /\ used[p].toggle < limit.toggle
  /\ Commit(p, toggleVideo(World(p)))
  /\ Use(p, "toggle") /\ Note(p, "toggleVideo")
  /\ UNCHANGED <<mounted, wired, incomingCall>>

RtcToggleAudio(p) ==
  /\ mounted[p] = "rtc" /\ used[p].toggle < limit.toggle
  /\ Commit(p, rtc_toggleAudio(World(p)))
  /\ Use(p, "toggle") /\ Note(p, "toggleAudio")
  /\ UNCHANGED <<mounted, wired, incomingCall>>

RtcToggleVideo(p) ==
  /\ mounted[p] = "rtc" /\ used[p].toggle < limit.toggle
  /\ Commit(p, rtc_toggleVideo(World(p)))
  /\ Use(p, "toggle") /\ Note(p, "toggleVideo")
  /\ UNCHANGED <<mounted, wired, incomingCall>>

\* the user stops the capture with the browser's own control: the track ends
\* and its onended handler runs
screenEnded(w, h, n) ==
  toggleScreenShare([w EXCEPT !.stopped = @ \cup {h.track}], FALSE, h.cls, n)

ScreenEnded(p, h) ==
  /\ mounted[p] = "call" /\ used[p].toggle < limit.toggle /\ HasFree(p)
  /\ h \in onended[p] /\ h.track \notin stopped[p]
  /\ Commit(p, screenEnded(World(p), h, used[p].toggle + 1))
  /\ Use(p, "toggle") /\ Note(p, "onended")
  /\ UNCHANGED <<mounted, wired, incomingCall>>

\* the auto-start effect with autoStart set: blocked with an error outside a
\* secure origin, startCall otherwise
autoStart(w, isVideo) ==
  IF ~w.browser.isSecure
  THEN [w EXCEPT !.error = "insecure"]
  ELSE startCallBody(w, isVideo, 0)

\* ChatRoom.handleStartCall: the call view mounts with autoStart, and the
\* auto-start effect runs
OpenCall(p, isVideo) ==
  /\ mounted[p] = "no" /\ used[p].cmd < limit.cmd
  /\ mounted' = [mounted EXCEPT ![p] = "call"]
  /\ Commit(p, autoStart(joinRoom(World(p)), isVideo))
  /\ Use(p, "cmd") /\ Note(p, "startCall")
  /\ UNCHANGED <<wired, incomingCall>>

\* IncomingCallNotification.handleAccept, ChatRoom.handleJoinCall: the call view
\* mounts without autoStart, and its mount effect calls acceptCall
JoinCall(p) ==
  /\ mounted[p] = "no" /\ incomingCall[p] # "none" /\ used[p].cmd < limit.cmd
  /\ mounted' = [mounted EXCEPT ![p] = "call"]
  /\ incomingCall' = [incomingCall EXCEPT ![p] = "none"]
  /\ Commit(p, acceptCallBody(joinRoom(World(p)), incomingCall[p] = "video", 0))
  /\ Use(p, "cmd") /\ Note(p, "acceptCall")
  /\ UNCHANGED wired

\* a reject that dismisses the notification and tells nobody
RejectCall_silent(p) ==
  /\ incomingCall[p] # "none" /\ mounted[p] # "rtc"
  /\ incomingCall' = [incomingCall EXCEPT ![p] = "none"]
  /\ Commit(p, World(p))
  /\ Note(p, "rejectCall")
  /\ UNCHANGED <<mounted, wired, used>>

\* ChatRoom.handleRejectCall behind IncomingCallNotification.handleReject
RejectCall(p) ==
  /\ incomingCall[p] # "none" /\ mounted[p] # "rtc"
  /\ incomingCall' = [incomingCall EXCEPT ![p] = "none"]
  /\ Commit(p, sendSignal(World(p), "call-reject", NoDesc, NoCand))
  /\ Note(p, "rejectCall")
  /\ UNCHANGED <<mounted, wired, used>>

\* ----------------------------------------------------- actions of useWebRTC
RtcStartCall(p, isVideo) ==
  /\ mounted[p] = "rtc" /\ used[p].cmd < limit.cmd /\ HasFree(p)
  /\ Commit(p, rtc_startCall(World(p), isVideo))
  /\ Use(p, "cmd") /\ Note(p, "startCall")
  /\ UNCHANGED <<mounted, wired, incomingCall>>

RtcAnswerCall(p) ==
  /\ mounted[p] = "rtc" /\ used[p].cmd < limit.cmd /\ HasFree(p)
  /\ Commit(p, rtc_answerCall(World(p), incomingCallIsVideo[p]))
  /\ Use(p, "cmd") /\ Note(p, "answerCall")
  /\ UNCHANGED <<mounted, wired, incomingCall>>

RtcRejectCall(p) ==
  /\ mounted[p] = "rtc" /\ used[p].end < limit.end /\ HasFree(p)
  /\ Commit(p, rtc_rejectCall(World(p)))
  /\ Use(p, "end") /\ Note(p, "rejecting")
  /\ UNCHANGED <<mounted, wired, incomingCall>>

RtcEndCall(p) ==
  /\ mounted[p] = "rtc" /\ used[p].end < limit.end /\ HasFree(p)
  /\ Commit(p, rtc_endCall(World(p)))
  /\ Use(p, "end") /\ Note(p, "ending")
  /\ UNCHANGED <<mounted, wired, incomingCall>>

RtcSignalsCleaned(p, t) ==
  /\ At(p, t, {"rtc_startCall"}, "cleanupSignals")
  /\ Step(p, rtc_signalsCleaned(World(p), t), "cleaned")

RtcMediaSettles(p, t, ok) ==
  /\ At(p, t, {"rtc_startCall", "rtc_answerCall"}, "gum")
  /\ ok => browser[p].mediaDevices
  /\ Step(p, rtc_mediaSettled(World(p), t, ok), IF ok THEN "media" ELSE "catch")

RtcNegotiationSettles(p, t, ok) ==
  /\ At(p, t, {"rtc_startCall", "rtc_answerCall"}, "negotiate")
  /\ Step(p, rtc_negotiated(World(p), t, ok),
          IF tasks'[p][t].at = "sent" THEN "negotiated" ELSE "catch")

\* the insert of a signal settled; endCall and rejectCall go on to clean up
RtcSent(p, t) ==
  /\ At(p, t, {"rtc_startCall", "rtc_answerCall", "rtc_endCall", "rtc_rejectCall"}, "sent")
  /\ Step(p, rtc_sent(World(p), t),
          IF tasks[p][t].op = "rtc_endCall" THEN "endCall"
          ELSE IF tasks[p][t].op = "rtc_rejectCall" THEN "rejectCall" ELSE "sent")

RtcDrainStep(p, t) ==
  /\ At(p, t, {"rtc_answerCall"}, "drain")
  /\ Step(p, rtc_drainStep(World(p), t), "drain")

RtcRemoteSettles(p, t, ok) ==
  /\ At(p, t, {"rtc_offer", "rtc_answer"}, "setRemote")
  /\ Step(p, rtc_remoteSet(World(p), t, ok), "remote")

RtcIceState(p, pc, state) ==
  /\ mounted[p] = "rtc" /\ pc \in DOMAIN pcs[p]
  /\ ~pcs[p][pc].closed /\ ~pcs[p][pc].failed
  /\ pcs[p][pc].local # NoDesc /\ pcs[p][pc].remote # NoDesc
  /\ state = "connected" => callStatus[p] # "connected"
  /\ Step(p, rtc_iceConnectionState(World(p), pc, state),
          IF state = "connected" THEN "ice"
          ELSE IF state = "failed" THEN "failed" ELSE "transient")

RtcUnmount(p) ==
  /\ mounted[p] = "rtc"
  /\ Commit(p, rtc_unmount(World(p)))
  /\ mounted' = [mounted EXCEPT ![p] = "gone"]
  /\ Note(p, "unmount")
  /\ UNCHANGED <<wired, incomingCall, used>>

\* ------------------------------------------------------------- the transport
\* a "signal" event at p.  useWebRTCCall: the hook's listener (while the call
\* view is mounted) and the notification's listener both run.  useWebRTC: its
\* realtime subscription runs handleSignal.
\* what hist keeps of a dispatched signal: its type, with an offer's video
\* flag when the specification notes the flags
Heard(p, signal) ==
  IF signal.sender_type = p THEN "self"
  ELSE IF signal.signal_type = "offer" /\ "offer-noflag" \in limit.note
       THEN (IF ~signal.desc.hasFlag THEN "offer-noflag"
             ELSE IF signal.desc.isVideo THEN "offer-video" ELSE "offer-audio")
       ELSE signal.signal_type
Dispatch(p, signal, popped) ==
  LET w == IF mounted[p] = "call" THEN handleSignal(World(p), signal)
           ELSE IF mounted[p] = "rtc" THEN rtc_handleSignal(World(p), signal)
           ELSE World(p)
      pushed == Len(w.pendingCandidatesRef) > Len(pendingCandidatesRef[p])
  IN /\ CommitFrom(p, w, popped)
     /\ incomingCall' = [incomingCall EXCEPT
                           ![p] = IF mounted[p] = "rtc" THEN @ ELSE notify(@, p, signal)]
     /\ Saw(p, Heard(p, signal),
            IF pushed /\ limit.watch
            THEN hist[p].queued \cup {[pc |-> peerConnectionRef[p], n |-> signal.cand.n]}
            ELSE hist[p].queued)
     /\ UNCHANGED <<mounted, wired>>

\* handling an answer (or, in useWebRTC, an offer) starts an asynchronous function
CanDispatch(p, signal) ==
  (/\ signal.sender_type # p
   /\ \/ mounted[p] = "call" /\ signal.signal_type = "answer" /\ peerConnectionRef[p] # 0
      \/ mounted[p] = "rtc" /\ signal.signal_type \in {"offer", "answer"}) => HasFree(p)

\* open environment: any signal may arrive
Arrives(p, signal) ==
  /\ ~wired /\ mounted[p] \in {"call", "rtc"} /\ used[p].recv < limit.recv
  /\ CanDispatch(p, signal)
  /\ Dispatch(p, signal, FALSE)
  /\ Use(p, "recv")

\* open environment, chat view without a call view: only the notification
\* listens
Notified(p, signal) ==
  /\ ~wired /\ mounted[p] = "no" /\ used[p].recv < limit.recv
  /\ Dispatch(p, signal, FALSE)
  /\ Use(p, "recv")

\* closed room: the transport delivers the signals in the order they were sent
Delivers(p) ==
  /\ wired /\ inbox[p] # <<>>
  /\ CanDispatch(p, Head(inbox[p]))
  /\ Dispatch(p, Head(inbox[p]), TRUE)
  /\ UNCHANGED used

NoHist == [last |-> "none", queued |-> {}, raced |-> FALSE]
NoUse == [cmd |-> 0, end |-> 0, recv |-> 0, cand |-> 0, toggle |-> 0]
\* watch: whether hist keeps the queue history and the race flag
\* note: the operations hist tells apart besides the Observed ones
Limit(cmd, end, recv, cand, toggle, watch) ==
  [cmd |-> cmd, end |-> end, recv |-> recv, cand |-> cand, toggle |-> toggle, watch |-> watch,
   note |-> {}]
Noting(lim, ops) == [lim EXCEPT !.note = ops]

\* --------------------------------------------------------------- ChatBubble
\* Times are in tenths of a second.
ReadDelay == 10
DeleteDelay == 1200
FadeDelay == 3
\* A message content is the sequence of its parts; the two link prefixes and
\* the two markers are parts of their own
VideoPrefix == "Video Call Link:"
AudioPrefix == "Voice Call Link:"
Contents ==
  {<<"text">>, <<VideoPrefix, "text">>, <<AudioPrefix, "text">>,
   <<"text", "[VIDEO_CALL]">>, <<"text", "[AUDIO_CALL]">>,
   <<"text", VideoPrefix>>, <<"[AUDIO_CALL]", "[VIDEO_CALL]">>}
Parts(content) == {content[i] : i \in DOMAIN content}
\* a parser that knows the prefixes only
parseCallLink_prefixOnly(content) ==
  IF content[1] = VideoPrefix THEN "video"
  ELSE IF content[1] = AudioPrefix THEN "audio"
  ELSE "none"
parseCallLink(content) ==
  IF content[1] = VideoPrefix \/ "[VIDEO_CALL]" \in Parts(content) THEN "video"
  ELSE IF content[1] = AudioPrefix \/ "[AUDIO_CALL]" \in Parts(content) THEN "audio"
  ELSE "none"

NoBubble ==
  [shown |-> FALSE, isOwn |-> FALSE, isRead |-> FALSE, autoDeleteOnRead |-> FALSE,
   content |-> <<"text">>, isVisible |-> TRUE, now |-> 0, timers |-> {},
   effectAt |-> 0, onRead |-> 0, onDelete |-> 0, renders |-> 0]
Timer(kind, due, autoDelete, isCall, readAt) ==
  [kind |-> kind, due |-> due, autoDelete |-> autoDelete, isCall |-> isCall,
   readAt |-> readAt]
\* the effect's cleanup, then the effect: clearTimeout(timer), and a new read
\* timer when the message is not the viewer's own and is unread
bubbleEffect(b) ==
  LET kept == {t \in b.timers : t.kind # "read"}
      isCallMessage == parseCallLink(b.content) # "none"
  IN IF ~b.isOwn /\ ~b.isRead
     THEN [b EXCEPT !.effectAt = b.now,
                    !.timers = kept \cup {Timer("read", b.now + ReadDelay,
                                                b.autoDeleteOnRead, isCallMessage, 0)}]
     ELSE [b EXCEPT !.timers = kept]
\* the callback of timer t runs
timerFires(b, t) ==
  LET b1 == [b EXCEPT !.now = t.due, !.timers = @ \ {t}]
  IN IF t.kind = "read"
     THEN [b1 EXCEPT !.onRead = @ + 1,
                     !.timers = IF t.autoDelete /\ ~t.isCall
                                THEN @ \cup {Timer("delete", t.due + DeleteDelay,
                                                   t.autoDelete, t.isCall, t.due)}
                                ELSE @]
     ELSE IF t.kind = "delete"
     THEN [b1 EXCEPT !.isVisible = FALSE,
                     !.timers = @ \cup {Timer("fade", t.due + FadeDelay, t.autoDelete,
                                              t.isCall, t.readAt)}]
     ELSE [b1 EXCEPT !.onDelete = @ + 1]
NextDue(b) == CHOOSE t \in b.timers : \A u \in b.timers : t.due <= u.due
\* the bubble's parent may render it e tenths later, before the next timer
MaxRenders == 3
Pause == {0, 4}
MayRender(e) ==
  /\ bubble.shown /\ bubble.renders < MaxRenders
  /\ bubble.timers # {} => bubble.now + e < NextDue(bubble).due
Rendered(b, e) == [b EXCEPT !.now = @ + e, !.renders = @ + 1]

\* the message list renders a bubble for a message
Display(isOwn, isRead, autoDelete, content) ==
  /\ bubble = NoBubble
  /\ bubble' = bubbleEffect([bubble EXCEPT !.shown = TRUE, !.isOwn = isOwn,
                                           !.isRead = isRead,
                                           !.autoDeleteOnRead = autoDelete,
                                           !.content = content])
  /\ UNCHANGED <<callVars, roomsHook, messagesHook>>
\* ChatRoom renders again: onRead and onDelete are new arrow functions
Rerender(e) ==
  /\ MayRender(e)
  /\ bubble' = bubbleEffect(Rendered(bubble, e))
  /\ UNCHANGED <<callVars, roomsHook, messagesHook>>
\* the UPDATE event of markAsRead arrives: isRead is true from now on
ReadLands(e) ==
  /\ MayRender(e) /\ bubble.onRead > 0 /\ ~bubble.isRead
  /\ bubble' = bubbleEffect([Rendered(bubble, e) EXCEPT !.isRead = TRUE])
  /\ UNCHANGED <<callVars, roomsHook, messagesHook>>
\* the viewer flips the auto-delete switch
ToggleAutoDelete(e) ==
  /\ MayRender(e)
  /\ bubble' = bubbleEffect([Rendered(bubble, e) EXCEPT !.autoDeleteOnRead = ~@])
  /\ UNCHANGED <<callVars, roomsHook, messagesHook>>
\* the message leaves the list: the bubble unmounts and its effect is cleaned up
Removed(e) ==
  /\ MayRender(e)
  /\ bubble' = [Rendered(bubble, e) EXCEPT !.shown = FALSE,
                                           !.timers = {t \in @ : t.kind # "read"}]
  /\ UNCHANGED <<callVars, roomsHook, messagesHook>>
TimerFires ==
  /\ bubble.timers # {}
  /\ bubble' = timerFires(bubble, NextDue(bubble))
  /\ UNCHANGED <<callVars, roomsHook, messagesHook>>

\* ----------------------------------------------------------------- useRooms
\* The rooms table is the sequence of its rows in creation order; the realtime
\* channel hands its change events over in commit order.
MaxRooms == 2
Room(id, is_active, client_name) ==
  [id |-> id, is_active |-> is_active, client_name |-> client_name]
NoRooms ==
  [mounted |-> FALSE, rooms |-> <<>>, table |-> <<>>, events |-> <<>>,
   fetch |-> [at |-> "idle", data |-> <<>>], creating |-> {}, deleting |-> {}]
Event(type, new) == [type |-> type, new |-> new]
Reverse(s) == [i \in 1..Len(s) |-> s[Len(s) + 1 - i]]
Ids(list) == {list[i].id : i \in DOMAIN list}
\* select * where is_active order by created_at desc
selectActiveRooms(table) == Reverse(SelectSeq(table, LAMBDA r : r.is_active))
MapSeq(s, F(_)) == [i \in DOMAIN s |-> F(s[i])]
\* the postgres_changes callback
roomsChanged(rooms, payload) ==
  IF payload.type = "INSERT" /\ payload.new.is_active
  THEN <<payload.new>> \o rooms
  ELSE IF payload.type = "UPDATE"
  THEN (IF ~payload.new.is_active
        THEN SelectSeq(rooms, LAMBDA r : r.id # payload.new.id)
        ELSE MapSeq(rooms, LAMBDA r : IF r.id = payload.new.id THEN payload.new ELSE r))
  ELSE rooms

\* the dashboard mounts: the effect calls fetchRooms and subscribes; n rooms exist
MountRooms(n) ==
  /\ ~roomsHook.mounted
  /\ roomsHook' = [roomsHook EXCEPT !.mounted = TRUE,
                                    !.table = [i \in 1..n |-> Room(i, TRUE, "none")],
                                    !.fetch = [at |-> "sent", data |-> <<>>]]
  /\ UNCHANGED <<callVars, bubble, messagesHook>>
\* the database answers the query of fetchRooms
FetchRoomsReads ==
  /\ roomsHook.fetch.at = "sent"
  /\ roomsHook' = [roomsHook EXCEPT !.fetch = [at |-> "read",
                                               data |-> selectActiveRooms(roomsHook.table)]]
  /\ UNCHANGED <<callVars, bubble, messagesHook>>
\* the answer arrives: setRooms(data)
FetchRoomsCompletes ==
  /\ roomsHook.fetch.at = "read"
  /\ roomsHook' = [roomsHook EXCEPT !.rooms = roomsHook.fetch.data,
                                    !.fetch = [at |-> "done", data |-> <<>>]]
  /\ UNCHANGED <<callVars, bubble, messagesHook>>
\* createRoom: the insert commits
CreateRoomInserts ==
  /\ roomsHook.mounted /\ Len(roomsHook.table) < MaxRooms
  /\ LET row == Room(Len(roomsHook.table) + 1, TRUE, "none")
     IN roomsHook' = [roomsHook EXCEPT !.table = Append(@, row),
                                       !.events = Append(@, Event("INSERT", row)),
                                       !.creating = @ \cup {row}]
  /\ UNCHANGED <<callVars, bubble, messagesHook>>
\* createRoom: the inserted row comes back
CreateRoomCompletes(row) ==
  /\ row \in roomsHook.creating
  /\ roomsHook' = [roomsHook EXCEPT !.rooms = <<row>> \o @, !.creating = @ \ {row}]
  /\ UNCHANGED <<callVars, bubble, messagesHook>>
\* updateClientName, by the client of the room
NameRoom(i) ==
  /\ roomsHook.mounted /\ i \in DOMAIN roomsHook.table
  /\ roomsHook.table[i].is_active /\ roomsHook.table[i].client_name = "none"
  /\ LET row == [roomsHook.table[i] EXCEPT !.client_name = "named"]
     IN roomsHook' = [roomsHook EXCEPT !.table[i] = row,
                                       !.events = Append(@, Event("UPDATE", row))]
  /\ UNCHANGED <<callVars, bubble, messagesHook>>
\* deleteRoom: the update commits
DeleteRoomUpdates(i) ==
  /\ roomsHook.mounted /\ i \in Ids(roomsHook.rooms) /\ i \in DOMAIN roomsHook.table
  /\ roomsHook.table[i].is_active
  /\ LET row == [roomsHook.table[i] EXCEPT !.is_active = FALSE]
     IN roomsHook' = [roomsHook EXCEPT !.table[i] = row,
                                       !.events = Append(@, Event("UPDATE", row)),
                                       !.deleting = @ \cup {i}]
  /\ UNCHANGED <<callVars, bubble, messagesHook>>
\* deleteRoom: after the await, the room is filtered out
DeleteRoomCompletes(i) ==
  /\ i \in roomsHook.deleting
  /\ roomsHook' = [roomsHook EXCEPT !.rooms = SelectSeq(@, LAMBDA r : r.id # i),
                                    !.deleting = @ \ {i}]
  /\ UNCHANGED <<callVars, bubble, messagesHook>>
RoomEventArrives ==
  /\ roomsHook.events # <<>>
  /\ roomsHook' = [roomsHook EXCEPT !.rooms = roomsChanged(@, Head(roomsHook.events)),
                                    !.events = Tail(@)]
  /\ UNCHANGED <<callVars, bubble, messagesHook>>

\* -------------------------------------------------------------- useMessages
MaxMessages == 2
Message(id, is_read) == [id |-> id, is_read |-> is_read]
NoMessages ==
  [mounted |-> FALSE, messages |-> <<>>, table |-> <<>>, events |-> <<>>,
   fetch |-> [at |-> "idle", data |-> <<>>], posted |-> 0,
   inserted |-> {}, deleted |-> {}]
\* handleMessageEvent
handleMessageEvent(messages, event) ==
  IF event.type = "INSERT" THEN Append(messages, event.new)
  ELSE IF event.type = "UPDATE"
  THEN MapSeq(messages, LAMBDA m : IF m.id = event.new.id THEN event.new ELSE m)
  ELSE IF event.type = "DELETE"
  THEN SelectSeq(messages, LAMBDA m : m.id # event.new.id)
  ELSE messages

\* the chat room mounts: the effect calls fetchMessages and listens; n messages exist
MountMessages(n) ==
  /\ ~messagesHook.mounted
  /\ messagesHook' = [messagesHook EXCEPT !.mounted = TRUE,
                                          !.table = [i \in 1..n |-> Message(i, FALSE)],
                                          !.posted = n,
                                          !.fetch = [at |-> "sent", data |-> <<>>]]
  /\ UNCHANGED <<callVars, bubble, roomsHook>>
\* the server answers GET /api/messages/:roomId
FetchMessagesReads ==
  /\ messagesHook.fetch.at = "sent"
  /\ messagesHook' = [messagesHook EXCEPT !.fetch = [at |-> "read",
                                                     data |-> messagesHook.table]]
  /\ UNCHANGED <<callVars, bubble, roomsHook>>
\* the answer arrives: setMessages(data) if response.ok
FetchMessagesCompletes(ok) ==
  /\ messagesHook.fetch.at = "read"
  /\ messagesHook' = [messagesHook EXCEPT !.messages = IF ok THEN messagesHook.fetch.data
                                                      ELSE @,
                                          !.fetch = [at |-> "done", data |-> <<>>]]
  /\ UNCHANGED <<callVars, bubble, roomsHook>>
\* sendMessage of either participant: the server stores the message
MessagePosted ==
  /\ messagesHook.mounted /\ messagesHook.posted < MaxMessages
  /\ LET row == Message(messagesHook.posted + 1, FALSE)
     IN messagesHook' = [messagesHook EXCEPT !.table = Append(@, row),
                                             !.posted = @ + 1,
                                             !.events = Append(@, Event("INSERT", row))]
  /\ UNCHANGED <<callVars, bubble, roomsHook>>
\* markAsRead: the server sets is_read
MessageRead(id) ==
  /\ messagesHook.mounted
  /\ \E i \in DOMAIN messagesHook.table :
       /\ messagesHook.table[i] = Message(id, FALSE)
       /\ messagesHook' = [messagesHook EXCEPT
                             !.table[i] = Message(id, TRUE),
                             !.events = Append(@, Event("UPDATE", Message(id, TRUE)))]
  /\ UNCHANGED <<callVars, bubble, roomsHook>>
\* deleteMessage: the server removes the message
MessageDeleted(id) ==
  /\ messagesHook.mounted
  /\ \E i \in DOMAIN messagesHook.table :
       /\ messagesHook.table[i].id = id
       /\ messagesHook' = [messagesHook EXCEPT
                             !.table = SelectSeq(@, LAMBDA m : m.id # id),
                             !.events = Append(@, Event("DELETE", messagesHook.table[i]))]
  /\ UNCHANGED <<callVars, bubble, roomsHook>>
MessageEventArrives ==
  /\ messagesHook.events # <<>>
  /\ LET event == Head(messagesHook.events)
     IN messagesHook' = [messagesHook EXCEPT
                           !.messages = handleMessageEvent(@, event),
                           !.events = Tail(@),
                           !.inserted = IF event.type = "INSERT"
                                        THEN @ \cup {event.new.id} ELSE @,
                           !.deleted = IF event.type = "DELETE"
                                       THEN @ \cup {event.new.id} ELSE @]
  /\ UNCHANGED <<callVars, bubble, roomsHook>>

\* https, navigator.mediaDevices present
Https == [isSecure |-> TRUE, mediaDevices |-> TRUE]

InitHookIn(b) ==
  /\ browser = b
  /\ error = [p \in Party |-> "none"]
  /\ toast = [p \in Party |-> [title |-> "none", n |-> 0]]
  /\ onended = [p \in Party |-> {}]
  /\ isAudioMuted = [p \in Party |-> FALSE]
  /\ isVideoOff = [p \in Party |-> FALSE]
  /\ disabled = [p \in Party |-> {}]
  /\ inRoom = [p \in Party |-> TRUE]
  /\ isCallActive = [p \in Party |-> FALSE]
  /\ isRinging = [p \in Party |-> FALSE]
  /\ localStream = [p \in Party |-> 0]
  /\ connectionState = [p \in Party |-> "disconnected"]
  /\ isScreenSharing = [p \in Party |-> FALSE]
  /\ peerConnectionRef = [p \in Party |-> 0]
  /\ pendingCandidatesRef = [p \in Party |-> <<>>]
  /\ hasStartedRef = [p \in Party |-> FALSE]
  /\ isCallerRef = [p \in Party |-> FALSE]
  /\ originalVideoTrackRef = [p \in Party |-> NoTrack]
  /\ pcs = [p \in Party |-> <<>>]
  /\ streams = [p \in Party |-> <<>>]
  /\ acquired = [p \in Party |-> {}]
  /\ stopped = [p \in Party |-> {}]
  /\ tasks = [p \in Party |-> [t \in 1..MaxTasks |-> NoTask]]
  /\ inbox = [p \in Party |-> <<>>]
  /\ offerStore = [p \in Party |-> NoDesc]
  /\ sent = [p \in Party |-> [t \in SignalTypes |-> 0]]
  /\ onCallEnded = [p \in Party |-> 0]
  /\ callStatus = [p \in Party |-> "idle"]
  /\ incomingCallIsVideo = [p \in Party |-> FALSE]
  /\ onCallRejected = [p \in Party |-> 0]
  /\ onIncomingCall = [p \in Party |-> 0]
  /\ used = [p \in Party |-> NoUse]
  /\ incomingCall = [p \in Party |-> "none"]
  /\ hist = [p \in Party |-> NoHist]
  /\ bubble = NoBubble
  /\ roomsHook = NoRooms
  /\ messagesHook = NoMessages

InitHook == InitHookIn([p \in Party |-> Https])

\* ---------------------------------------------------------- specifications
\* Spec: one participant's useWebRTCCall against an arbitrary room
Init ==
  /\ InitHook
  /\ wired = FALSE
  /\ limit = Limit(MaxCmd, MaxEnd, MaxRecv, 0, 0, FALSE)
  /\ mounted = [q \in Party |-> IF q = "client" THEN "call" ELSE "no"]

\* the asynchronous functions of useWebRTCCall going on, with either outcome
CallSettles(p) ==
  \/ \E t \in 1..MaxTasks, ok \in BOOLEAN : MediaSettles(p, t, ok)
  \/ \E t \in 1..MaxTasks, ok \in BOOLEAN : NegotiationSettles(p, t, ok)
  \/ \E t \in 1..MaxTasks, ok \in BOOLEAN : RemoteOfferSettles(p, t, ok)
  \/ \E t \in 1..MaxTasks, ok \in BOOLEAN : RemoteAnswerSettles(p, t, ok)
  \/ \E t \in 1..MaxTasks : DrainStep(p, t)

\* the asynchronous functions of useWebRTC going on, with either outcome
RtcSettles(p) ==
  \/ \E t \in 1..MaxTasks : RtcSignalsCleaned(p, t)
  \/ \E t \in 1..MaxTasks, ok \in BOOLEAN : RtcMediaSettles(p, t, ok)
  \/ \E t \in 1..MaxTasks, ok \in BOOLEAN : RtcNegotiationSettles(p, t, ok)
  \/ \E t \in 1..MaxTasks : RtcSent(p, t)
  \/ \E t \in 1..MaxTasks : RtcDrainStep(p, t)
  \/ \E t \in 1..MaxTasks, ok \in BOOLEAN : RtcRemoteSettles(p, t, ok)

Next ==
  \E p \in Party :
    \/ StartCall(p, TRUE)
    \/ AcceptCall(p, TRUE)
    \/ \E t \in 1..MaxTasks, r \in Visible(p) \cup {NoDesc} : LookupReturns(p, t, r)
    \/ CallSettles(p)
    \/ EndCall(p)
    \/ \E pc \in DOMAIN pcs[p] : ConnectionFails(p, pc)
    \/ Unmount(p)
    \/ \E signal \in Arrivals(p) : Arrives(p, signal)

Spec == Init /\ [][Next]_vars

\* SpecBoth: one participant running either of the two hooks against an
\* arbitrary room, with repeated endCall
InitBoth ==
  /\ InitHook
  /\ wired = FALSE
  /\ limit = Limit(BothCmd, BothEnd, BothRecv, 0, 0, FALSE)
  /\ \E h \in {"call", "rtc"} :
       mounted = [q \in Party |-> IF q = "client" THEN h ELSE "no"]

NextBoth ==
  \E p \in Party :
    \/ StartCall(p, TRUE)
    \/ AcceptCall(p, TRUE)
    \/ \E t \in 1..MaxTasks, r \in Visible(p) \cup {NoDesc} : LookupReturns(p, t, r)
    \/ CallSettles(p)
    \/ EndCall(p)
    \/ \E pc \in DOMAIN pcs[p] : ConnectionFails(p, pc)
    \/ \E signal \in Arrivals(p) : Arrives(p, signal)
    \/ RtcStartCall(p, TRUE)
    \/ RtcAnswerCall(p)
    \/ RtcEndCall(p)
    \/ RtcRejectCall(p)
    \/ RtcSettles(p)
    \/ \E pc \in DOMAIN pcs[p], st \in {"connected", "failed"} : RtcIceState(p, pc, st)
    \/ RtcUnmount(p)

SpecBoth == InitBoth /\ [][NextBoth]_vars

\* SpecIce: one participant's useWebRTCCall receiving candidates around the
\* moment its remote description is set; hist keeps what was queued
InitIce ==
  /\ InitHook
  /\ wired = FALSE
  /\ limit = Limit(IceCmd, 0, IceRecv, 0, 0, TRUE)
  /\ mounted = [q \in Party |-> IF q = "client" THEN "call" ELSE "no"]

NextIce ==
  \E p \in Party :
    \/ \E v \in BOOLEAN : StartCall(p, v)
    \/ \E v \in BOOLEAN : AcceptCall(p, v)
    \/ \E t \in 1..MaxTasks, r \in Visible(p) \cup {NoDesc} : LookupReturns(p, t, r)
    \/ CallSettles(p)
    \/ \E signal \in Arrivals(p) : Arrives(p, signal)

SpecIce == InitIce /\ [][NextIce]_vars

\* the asynchronous functions of useWebRTCCall going on, every operation succeeding
CallSucceeds(p) ==
  \/ \E t \in 1..MaxTasks : MediaSettles(p, t, TRUE)
  \/ \E t \in 1..MaxTasks : NegotiationSettles(p, t, TRUE)
  \/ \E t \in 1..MaxTasks : RemoteOfferSettles(p, t, TRUE)
  \/ \E t \in 1..MaxTasks : RemoteAnswerSettles(p, t, TRUE)
  \/ \E t \in 1..MaxTasks : DrainStep(p, t)

InitPair(lim, m) ==
  /\ InitHook
  /\ wired = TRUE
  /\ limit = lim
  /\ mounted = [q \in Party |-> m]

\* SpecHappy: one participant opens a video call, the other accepts the
\* notification; the lookup finds the offer, every operation succeeds, every
\* signal is delivered
InitHappy == InitPair(Limit(1, 0, 0, HappyCand, 0, FALSE), "no")

NextHappy ==
  \E p \in Party :
    \/ (\A q \in Party : mounted[q] = "no" /\ incomingCall[q] = "none") /\ OpenCall(p, TRUE)
    \/ JoinCall(p)
    \/ \E t \in 1..MaxTasks, r \in Visible(p) : LookupReturns(p, t, r)
    \/ CallSucceeds(p)
    \/ \E pc \in DOMAIN pcs[p] : IceGather(p, pc)
    \/ Delivers(p)

SpecHappy == InitHappy /\ [][NextHappy]_vars /\ WF_vars(NextHappy)

\* SpecRace: both participants join (acceptCall) in any order, one of them may
\* end the call, and they may join again; the lookup may find nothing
InitRace == InitPair(Limit(RaceCmd, 1, 0, 0, 0, TRUE), "call")

\* the call view calls acceptCall once, when it opens; it closes when
\* onCallEnded fires and can be opened again then
Joinable(p) ==
  \/ used[p].cmd = 0
  \/ onCallEnded[p] > 0 /\ ~hasStartedRef[p] /\ FreeSlots(tasks[p]) = 1..MaxTasks

NextRace ==
  \E p \in Party :
    \/ Joinable(p) /\ AcceptCall(p, TRUE)
    \/ \E t \in 1..MaxTasks, r \in Visible(p) \cup {NoDesc} : LookupReturns(p, t, r)
    \/ \E t \in 1..MaxTasks : MediaSettles(p, t, TRUE)
    \/ \E t \in 1..MaxTasks : NegotiationSettles(p, t, TRUE)
    \/ \E t \in 1..MaxTasks : RemoteOfferSettles(p, t, TRUE)
    \/ \E t \in 1..MaxTasks : RemoteAnswerSettles(p, t, TRUE)
    \/ (\A q \in Party : used[q].end = 0) /\ EndCall(p)
    \/ Delivers(p)

SpecRace == InitRace /\ [][NextRace]_vars

\* SpecReject: one participant calls, the other rejects what it was offered;
\* with useWebRTCCall behind ChatRoom, or with useWebRTC on both sides
InitReject ==
  \E m \in {"no", "rtc"} : InitPair(Limit(1, 1, 0, RejectCand, 0, FALSE), m)

NextReject ==
  \E p \in Party :
    \/ \E v \in BOOLEAN :
         (\A q \in Party : mounted[q] = "no" /\ incomingCall[q] = "none") /\ OpenCall(p, v)
    \/ \E t \in 1..MaxTasks, ok \in BOOLEAN : MediaSettles(p, t, ok)
    \/ \E t \in 1..MaxTasks, ok \in BOOLEAN : NegotiationSettles(p, t, ok)
    \/ \E pc \in DOMAIN pcs[p] : IceGather(p, pc)
    \/ RejectCall(p)
    \/ \E v \in BOOLEAN :
         (\A q \in Party : used[q].cmd = 0 /\ callStatus[q] = "idle") /\ RtcStartCall(p, v)
    \/ \E t \in 1..MaxTasks : RtcSignalsCleaned(p, t)
    \/ \E t \in 1..MaxTasks, ok \in BOOLEAN : RtcMediaSettles(p, t, ok)
    \/ \E t \in 1..MaxTasks, ok \in BOOLEAN : RtcNegotiationSettles(p, t, ok)
    \/ \E t \in 1..MaxTasks : RtcSent(p, t)
    \/ \E t \in 1..MaxTasks, ok \in BOOLEAN : RtcRemoteSettles(p, t, ok)
    \/ callStatus[p] = "receiving" /\ RtcRejectCall(p)
    \/ Delivers(p)

SpecReject == InitReject /\ [][NextReject]_vars

\* SpecShare: one participant in a video call, as caller or callee, toggling
\* screen sharing, one toggle at a time; the user may cancel the screen picker
ShareArrivals(p) ==
  {s \in Arrivals(p) : s.sender_type # p /\ s.signal_type \in {"answer", "ice-candidate"}}

Toggling(p) == \E t \in 1..MaxTasks : tasks[p][t].op = "toggleScreenShare"

InitShare ==
  /\ InitHook
  /\ wired = FALSE
  /\ limit = Limit(1, 0, ShareRecv, 0, ShareToggles, FALSE)
  /\ mounted = [q \in Party |-> IF q = "client" THEN "call" ELSE "no"]

NextShare ==
  \E p \in Party :
    \/ StartCall(p, TRUE)
    \/ AcceptCall(p, TRUE)
    \/ \E t \in 1..MaxTasks, r \in Visible(p) : LookupReturns(p, t, r)
    \/ CallSucceeds(p)
    \/ \E signal \in ShareArrivals(p) : Arrives(p, signal)
    \/ ~Toggling(p) /\ ToggleScreenShare(p)
    \/ \E t \in 1..MaxTasks, ok \in BOOLEAN : DisplaySettles(p, t, ok, TRUE)
    \/ \E t \in 1..MaxTasks : ReplaceSettles(p, t, TRUE)
    \/ \E t \in 1..MaxTasks : RestoreSettles(p, t, TRUE)

SpecShare == InitShare /\ [][NextShare]_vars

\* SpecOnce: one participant's startCall / acceptCall invoked again and again,
\* every operation succeeding, with one endCall and any signal from the room
InitOnce ==
  /\ InitHook
  /\ wired = FALSE
  /\ limit = Noting(Limit(OnceCmd, 1, OnceRecv, 0, 0, FALSE),
                    {"startCall", "acceptCall", "fallback"})
  /\ mounted = [q \in Party |-> IF q = "client" THEN "call" ELSE "no"]

NextOnce ==
  \E p \in Party :
    \/ StartCall(p, TRUE)
    \/ AcceptCall(p, TRUE)
    \/ \E t \in 1..MaxTasks, r \in Visible(p) \cup {NoDesc} : LookupReturns(p, t, r)
    \/ CallSucceeds(p)
    \/ EndCall(p)
    \/ \E signal \in Arrivals(p) : Arrives(p, signal)

SpecOnce == InitOnce /\ [][NextOnce]_vars

\* SpecJoin: one participant joining as the call view does (acceptCall once
\* when it opens, again only in a view opened after onCallEnded closed the
\* last one); the lookup finds nothing, fails, or finds an offer with or
\* without a video flag; operations may fail, the call may be ended, any
\* signal may arrive
FoundOffers(p) ==
  {OfferOf(Other(p), 1, TRUE), OfferOf(Other(p), 1, FALSE),
   [OfferOf(Other(p), 1, FALSE) EXCEPT !.hasFlag = FALSE]}

InitJoin ==
  /\ InitHook
  /\ wired = FALSE
  /\ limit = Noting(Limit(JoinCmd, 1, JoinRecv, 0, 0, FALSE), {"fallback", "lookup", "media", "ice-candidate"})
  /\ mounted = [q \in Party |-> IF q = "client" THEN "call" ELSE "no"]

NextJoin ==
  \E p \in Party :
    \/ \E v \in BOOLEAN : Joinable(p) /\ AcceptCall(p, v)
    \/ \E t \in 1..MaxTasks, r \in FoundOffers(p) \cup {NoDesc} : LookupReturns(p, t, r)
    \/ CallSettles(p)
    \/ EndCall(p)
    \/ \E signal \in Arrivals(p) : Arrives(p, signal)

SpecJoin == InitJoin /\ [][NextJoin]_vars

\* SpecGlare: one participant calling, with either hook, while offers, answers
\* and candidates of the other participant arrive
GlareArrivals(p) ==
  {s \in Arrivals(p) :
     s.sender_type # p /\ s.signal_type \in {"offer", "answer", "ice-candidate"}}

InitGlare ==
  /\ InitHook
  /\ wired = FALSE
  /\ limit = Noting(Limit(1, 0, GlareRecv, 0, 0, FALSE), {"offer", "answer"})
  /\ \E h \in {"call", "rtc"} :
       mounted = [q \in Party |-> IF q = "client" THEN h ELSE "no"]

NextGlare ==
  \E p \in Party :
    \/ StartCall(p, TRUE)
    \/ \E t \in 1..MaxTasks, ok \in BOOLEAN : MediaSettles(p, t, ok)
    \/ \E t \in 1..MaxTasks, ok \in BOOLEAN : NegotiationSettles(p, t, ok)
    \/ \E t \in 1..MaxTasks, ok \in BOOLEAN : RemoteAnswerSettles(p, t, ok)
    \/ \E t \in 1..MaxTasks : DrainStep(p, t)
    \/ RtcStartCall(p, TRUE)
    \/ \E t \in 1..MaxTasks : RtcSignalsCleaned(p, t)
    \/ \E t \in 1..MaxTasks, ok \in BOOLEAN : RtcMediaSettles(p, t, ok)
    \/ \E t \in 1..MaxTasks, ok \in BOOLEAN : RtcNegotiationSettles(p, t, ok)
    \/ \E t \in 1..MaxTasks : RtcSent(p, t)
    \/ \E t \in 1..MaxTasks, ok \in BOOLEAN : RtcRemoteSettles(p, t, ok)
    \/ \E signal \in GlareArrivals(p) : Arrives(p, signal)

SpecGlare == InitGlare /\ [][NextGlare]_vars

\* SpecEnd: two participants, both with useWebRTCCall or both with useWebRTC,
\* the admin calling and the client accepting or answering; each may invoke
\* endCall once, at any moment; every operation succeeds and every signal is
\* delivered
InitEnd ==
  \E m \in {"call", "rtc"} : InitPair(Limit(1, 1, 0, 0, 0, FALSE), m)

NextEnd ==
  \E p \in Party :
    \/ p = "admin" /\ StartCall(p, TRUE)
    \/ p = "client" /\ AcceptCall(p, TRUE)
    \/ \E t \in 1..MaxTasks, r \in Visible(p) \cup {NoDesc} : LookupReturns(p, t, r)
    \/ \E t \in 1..MaxTasks : MediaSettles(p, t, TRUE)
    \/ \E t \in 1..MaxTasks : NegotiationSettles(p, t, TRUE)
    \/ \E t \in 1..MaxTasks : RemoteOfferSettles(p, t, TRUE)
    \/ \E t \in 1..MaxTasks : RemoteAnswerSettles(p, t, TRUE)
    \/ EndCall(p)
    \/ p = "admin" /\ RtcStartCall(p, TRUE)
    \/ p = "client" /\ RtcAnswerCall(p)
    \/ RtcEndCall(p)
    \/ \E t \in 1..MaxTasks : RtcSignalsCleaned(p, t)
    \/ \E t \in 1..MaxTasks : RtcMediaSettles(p, t, TRUE)
    \/ \E t \in 1..MaxTasks : RtcNegotiationSettles(p, t, TRUE)
    \/ \E t \in 1..MaxTasks : RtcSent(p, t)
    \/ \E t \in 1..MaxTasks : RtcRemoteSettles(p, t, TRUE)
    \/ Delivers(p)

SpecEnd == InitEnd /\ [][NextEnd]_vars

\* SpecOrigin: the pages are served from any mix of origins; one participant
\* opens a call (auto-start), or accepts the notification of the other's call
\* (acceptCall), and the offer lookup may find nothing
Origins ==
  {Https,
   [isSecure |-> FALSE, mediaDevices |-> FALSE],   \* http on a LAN address
   [isSecure |-> FALSE, mediaDevices |-> TRUE]}    \* http://[::1], http://app.localhost

InitOrigin ==
  /\ \E b \in [Party -> Origins] : InitHookIn(b)
  /\ wired = TRUE
  /\ limit = Limit(1, 0, 0, 0, 0, FALSE)
  /\ mounted = [q \in Party |-> "no"]

NextOrigin ==
  \E p \in Party :
    \/ \E v \in BOOLEAN : incomingCall[p] = "none" /\ OpenCall(p, v)
    \/ JoinCall(p)
    \/ \E t \in 1..MaxTasks, r \in Visible(p) \cup {NoDesc} : LookupReturns(p, t, r)
    \/ \E t \in 1..MaxTasks, ok \in BOOLEAN : MediaSettles(p, t, ok)
    \/ \E t \in 1..MaxTasks : NegotiationSettles(p, t, TRUE)
    \/ \E t \in 1..MaxTasks : RemoteOfferSettles(p, t, TRUE)
    \/ \E t \in 1..MaxTasks : RemoteAnswerSettles(p, t, TRUE)
    \/ Delivers(p)

SpecOrigin == InitOrigin /\ [][NextOrigin]_vars

\* SpecScreen: one participant in a video or audio call, as caller or callee,
\* toggling screen sharing, one toggle at a time; the picker may be cancelled,
\* a track replacement may fail, the user may stop the capture with the
\* browser's control, and the other side may end the call
ScreenArrivals(p) ==
  {s \in Arrivals(p) : s.sender_type # p /\ s.signal_type \in {"answer", "call-end"}}

InitScreen ==
  /\ InitHook
  /\ wired = FALSE
  /\ limit = Noting(Limit(1, 0, ScreenRecv, 0, ScreenToggles, FALSE),
                    {"toggle", "onended", "display", "shared", "restored"})
  /\ mounted = [q \in Party |-> IF q = "client" THEN "call" ELSE "no"]

NextScreen ==
  \E p \in Party :
    \/ \E v \in BOOLEAN : StartCall(p, v)
    \/ AcceptCall(p, TRUE)
    \/ \E t \in 1..MaxTasks, r \in Visible(p) : LookupReturns(p, t, r)
    \/ \E t \in 1..MaxTasks : MediaSettles(p, t, TRUE)
    \/ \E t \in 1..MaxTasks : NegotiationSettles(p, t, TRUE)
    \/ \E t \in 1..MaxTasks : RemoteOfferSettles(p, t, TRUE)
    \/ \E t \in 1..MaxTasks : RemoteAnswerSettles(p, t, TRUE)
    \/ \E signal \in ScreenArrivals(p) : Arrives(p, signal)
    \/ ~Toggling(p) /\ ToggleScreenShare(p)
    \/ \E h \in onended[p] : ~Toggling(p) /\ ScreenEnded(p, h)
    \/ \E t \in 1..MaxTasks, ok \in BOOLEAN : DisplaySettles(p, t, ok, TRUE)
    \/ \E t \in 1..MaxTasks, ok \in BOOLEAN : ReplaceSettles(p, t, ok)
    \/ \E t \in 1..MaxTasks, ok \in BOOLEAN : RestoreSettles(p, t, ok)

SpecScreen == InitScreen /\ [][NextScreen]_vars

\* SpecAbort: one participant's useWebRTCCall with nobody answering: calls are
\* started and ended in any order, and any operation may fail
InitAbort ==
  /\ InitHook
  /\ wired = FALSE
  /\ limit = Limit(AbortCmd, 1, 0, 0, 0, FALSE)
  /\ mounted = [q \in Party |-> IF q = "client" THEN "call" ELSE "no"]

NextAbort ==
  \E p \in Party :
    \/ \E v \in BOOLEAN : StartCall(p, v)
    \/ \E t \in 1..MaxTasks, ok \in BOOLEAN : MediaSettles(p, t, ok)
    \/ \E t \in 1..MaxTasks, ok \in BOOLEAN : NegotiationSettles(p, t, ok)
    \/ EndCall(p)

SpecAbort == InitAbort /\ [][NextAbort]_vars

\* SpecMute: one participant, with either hook, starts video or audio calls,
\* mutes and unmutes, shares the screen, ends the call and starts again
InitMute ==
  /\ \E m \in {"call", "rtc"} :
       mounted = [q \in Party |-> IF q = "client" THEN m ELSE "no"]
  /\ InitHook
  /\ wired = FALSE
  /\ limit = Limit(MuteCmd, 1, 0, 0, MuteToggles, FALSE)

NextMute ==
  \E p \in Party :
    \/ \E v \in BOOLEAN : StartCall(p, v)
    \/ \E t \in 1..MaxTasks : MediaSettles(p, t, TRUE)
    \/ EndCall(p)
    \/ ToggleAudio(p)
    \/ ToggleVideo(p)
    \/ ~Toggling(p) /\ ToggleScreenShare(p)
    \/ \E t \in 1..MaxTasks : DisplaySettles(p, t, TRUE, TRUE)
    \/ \E t \in 1..MaxTasks : ReplaceSettles(p, t, TRUE)
    \/ \E t \in 1..MaxTasks : RestoreSettles(p, t, TRUE)
    \/ \E v \in BOOLEAN : RtcStartCall(p, v)
    \/ \E t \in 1..MaxTasks : RtcSignalsCleaned(p, t)
    \/ \E t \in 1..MaxTasks : RtcMediaSettles(p, t, TRUE)
    \/ RtcEndCall(p)
    \/ \E t \in 1..MaxTasks : RtcSent(p, t)
    \/ RtcToggleAudio(p)
    \/ RtcToggleVideo(p)

SpecMute == InitMute /\ [][NextMute]_vars

\* SpecRoom: both participants in the chat room; the admin opens a call, the
\* client joins or rejects it, the admin may end it, and a call view closes
\* once onCallEnded has fired
InitRoom == InitPair(Limit(1, 1, 0, 0, 0, FALSE), "no")

NextRoom ==
  \E p \in Party :
    \/ \E v \in BOOLEAN : p = "admin" /\ OpenCall(p, v)
    \/ JoinCall(p)
    \/ \E t \in 1..MaxTasks, r \in Visible(p) : LookupReturns(p, t, r)
    \/ \E t \in 1..MaxTasks : MediaSettles(p, t, TRUE)
    \/ \E t \in 1..MaxTasks : NegotiationSettles(p, t, TRUE)
    \/ \E t \in 1..MaxTasks : RemoteOfferSettles(p, t, TRUE)
    \/ \E t \in 1..MaxTasks : RemoteAnswerSettles(p, t, TRUE)
    \/ p = "admin" /\ EndCall(p)
    \/ RejectCall(p)
    \/ onCallEnded[p] > 0 /\ Unmount(p)
    \/ Delivers(p)

SpecRoom == InitRoom /\ [][NextRoom]_vars

\* SpecBubble: one message of either side, read or unread, of every content,
\* is displayed; the chat view renders again, the switch is flipped, the read
\* mark arrives and the message is removed at any moment between the timers
InitBubble ==
  /\ InitHook
  /\ wired = FALSE
  /\ limit = Limit(0, 0, 0, 0, 0, FALSE)
  /\ mounted = [q \in Party |-> "no"]
NextBubble ==
  \/ \E isOwn \in BOOLEAN, isRead \in BOOLEAN, autoDelete \in BOOLEAN, content \in Contents :
       Display(isOwn, isRead, autoDelete, content)
  \/ \E e \in Pause : Rerender(e)
  \/ \E e \in Pause : ReadLands(e)
  \/ \E e \in Pause : ToggleAutoDelete(e)
  \/ \E e \in Pause : Removed(e)
  \/ TimerFires
SpecBubble == InitBubble /\ [][NextBubble]_vars

\* SpecRooms: the admin dashboard's useRooms against the rooms table
InitRooms ==
  /\ InitHook
  /\ wired = FALSE
  /\ limit = Limit(0, 0, 0, 0, 0, FALSE)
  /\ mounted = [q \in Party |-> "no"]
NextRooms ==
  \/ \E n \in 0..(MaxRooms - 1) : MountRooms(n)
  \/ FetchRoomsReads
  \/ FetchRoomsCompletes
  \/ CreateRoomInserts
  \/ \E row \in roomsHook.creating : CreateRoomCompletes(row)
  \/ \E i \in 1..MaxRooms : NameRoom(i)
  \/ \E i \in 1..MaxRooms : DeleteRoomUpdates(i)
  \/ \E i \in 1..MaxRooms : DeleteRoomCompletes(i)
  \/ RoomEventArrives
SpecRooms == InitRooms /\ [][NextRooms]_vars

\* SpecMessages: a chat room's useMessages against the messages table
InitMessages ==
  /\ InitHook
  /\ wired = FALSE
  /\ limit = Limit(0, 0, 0, 0, 0, FALSE)
  /\ mounted = [q \in Party |-> "no"]
NextMessages ==
  \/ \E n \in 0..(MaxMessages - 1) : MountMessages(n)
  \/ FetchMessagesReads
  \/ \E ok \in BOOLEAN : FetchMessagesCompletes(ok)
  \/ MessagePosted
  \/ \E id \in 1..MaxMessages : MessageRead(id)
  \/ \E id \in 1..MaxMessages : MessageDeleted(id)
  \/ MessageEventArrives
SpecMessages == InitMessages /\ [][NextMessages]_vars

\* SpecNotify: the chat view of each participant in an open environment:
\* offers with either intent or without the flag, call-end and call-reject
\* arrive from either role; the participant accepts or rejects
NotifyRecv == 3
OfferFlags == {"offer-video", "offer-audio", "offer-noflag"}
Offers(s) ==
  {OfferOf(s, 1, TRUE), OfferOf(s, 1, FALSE),
   [OfferOf(s, 1, FALSE) EXCEPT !.hasFlag = FALSE]}
NotifyArrivals ==
  {Sig(t, s, NoDesc, NoCand) : t \in {"call-end", "call-reject"}, s \in Party}
  \cup UNION {{Sig("offer", s, o, NoCand) : o \in Offers(s)} : s \in Party}
InitNotify ==
  /\ InitHook
  /\ wired = FALSE
  /\ limit = Noting(Limit(1, 0, NotifyRecv, 0, 0, FALSE), OfferFlags)
  /\ mounted = [q \in Party |-> "no"]
NextNotify ==
  \E p \in Party :
    \/ \E s \in NotifyArrivals : Notified(p, s)
    \/ \E s \in NotifyArrivals : Arrives(p, s)
    \/ JoinCall(p)
    \/ RejectCall(p)
SpecNotify == InitNotify /\ [][NextNotify]_vars

\* SpecTransport: one participant calling, with either hook; its offer is
\* answered, and the connection then reports its states in any order
TransportArrivals(p) ==
  {s \in Arrivals(p) : s.sender_type # p /\ s.signal_type = "answer"}

InitTransport ==
  /\ InitHook
  /\ wired = FALSE
  /\ limit = Noting(Limit(TransportCmd, 0, 1, 0, 0, FALSE), {"transient", "ice"})
  /\ \E h \in {"call", "rtc"} :
       mounted = [q \in Party |-> IF q = "client" THEN h ELSE "no"]

NextTransport ==
  \E p \in Party :
    \/ StartCall(p, TRUE)
    \/ \E t \in 1..MaxTasks : MediaSettles(p, t, TRUE)
    \/ \E t \in 1..MaxTasks : NegotiationSettles(p, t, TRUE)
    \/ \E t \in 1..MaxTasks : RemoteAnswerSettles(p, t, TRUE)
    \/ \E pc \in DOMAIN pcs[p], st \in {"connecting", "connected", "disconnected", "failed"} :
         ConnectionState(p, pc, st)
    \/ RtcStartCall(p, TRUE)
    \/ \E t \in 1..MaxTasks : RtcSignalsCleaned(p, t)
    \/ \E t \in 1..MaxTasks : RtcMediaSettles(p, t, TRUE)
    \/ \E t \in 1..MaxTasks : RtcNegotiationSettles(p, t, TRUE)
    \/ \E t \in 1..MaxTasks : RtcSent(p, t)
    \/ \E t \in 1..MaxTasks : RtcRemoteSettles(p, t, TRUE)
    \/ \E pc \in DOMAIN pcs[p], st \in {"connected", "disconnected", "failed"} :
         RtcIceState(p, pc, st)
    \/ \E signal \in TransportArrivals(p) : Arrives(p, signal)

SpecTransport == InitTransport /\ [][NextTransport]_vars

\* ----------------------------------------------------------------- notions
OpenPcs(p) == {i \in DOMAIN pcs[p] : ~pcs[p][i].closed}
LiveTracks(p) == acquired[p] \ stopped[p]
Connected(p) == isCallActive[p] /\ ~isRinging[p]
Role(p) ==
  IF ~hasStartedRef[p] THEN "undetermined"
  ELSE IF isCallerRef[p] THEN "caller" ELSE "callee"
TornDown(p) ==
  /\ peerConnectionRef[p] = 0 /\ pendingCandidatesRef[p] = <<>>
  /\ ~isRinging[p] /\ ~isCallActive[p]
Teardowns == {"endCall", "call-end", "call-reject", "failed", "catch", "unmount"}

\* ------------------------------------------------------------------ claims
\* C3: once a participant is caller or callee, handling an inbound signal that
\* does not end the session leaves the role as it is, and a participant is
\* marked caller in the step that emits its own offer.
C3_RoleExclusive ==
  [][\A p \in Party :
       /\ (sent'[p]["offer"] > sent[p]["offer"]) => isCallerRef'[p]
       /\ (used'[p].recv > used[p].recv /\ Role(p) # "undetermined" /\ hasStartedRef'[p])
            => (isCallerRef'[p] = isCallerRef[p])]_vars

\* C9: a participant never has two peer connections open at once.
C9_OneOpenConnection == \A p \in Party : Cardinality(OpenPcs(p)) <= 1

\* C10: right after any teardown (endCall, call-end or call-reject received,
\* connection failed, error caught in startCall/acceptCall, unmount) the
\* participant has no open peer connection and no live local track.
C10_TeardownReleases ==
  \A p \in Party :
    hist[p].last \in Teardowns => OpenPcs(p) = {} /\ LiveTracks(p) = {}

\* C2: an endCall that directly follows an endCall emits no further call-end
\* and leaves the participant torn down (no connection, empty queue, not
\* ringing, not active), in either hook.
C2_EndCallIdempotent ==
  [][\A p \in Party :
       (/\ hist[p].last = "endCall"
        /\ hist'[p].last \in {"endCall", "ending"}
        /\ used'[p].end = used[p].end + 1)
         => /\ sent'[p]["call-end"] = sent[p]["call-end"]
            /\ TornDown(p)']_vars

\* C4: handling a signal whose sender is the local role changes no state of the
\* hook (flags, role, refs, connections, streams, functions in flight), emits
\* nothing and fires no callback, in either hook.
C4_SelfSignalIgnored ==
  [][\A p \in Party :
       (used'[p].recv = used[p].recv + 1 /\ hist'[p].last = "self")
         => UNCHANGED <<hookVars, sent, inbox, offerStore, onCallEnded,
                        onCallRejected, onIncomingCall>>]_vars

\* a self-sent signal was handled while a connection was up and a function in flight
C4_Witness ==
  \E p \in Party :
    /\ hist[p].last = "self" /\ peerConnectionRef[p] # 0
    /\ \E t \in 1..MaxTasks : tasks[p][t].op # "none"

\* the candidates of a sequence are in arrival order, none repeated
InArrivalOrder(s) == \A i, j \in DOMAIN s : i < j => s[i].n < s[j].n
Draining(p) == \E t \in 1..MaxTasks : tasks[p][t].at = "drain"

\* C1: the candidates a connection was given are in the order they arrived,
\* each once; and when the remote description of the current connection is
\* set and no drain loop is running, every candidate that was queued for it
\* has been given to it.
C1_QueuedCandidatesInOrder ==
  \A p \in Party :
    /\ \A i \in DOMAIN pcs[p] : InArrivalOrder(pcs[p][i].applied)
    /\ \A i \in OpenPcs(p) :
         (i = peerConnectionRef[p] /\ pcs[p][i].remote # NoDesc /\ ~Draining(p))
           => \A q \in hist[p].queued :
                q.pc = i => \E k \in DOMAIN pcs[p][i].applied : pcs[p][i].applied[k].n = q.n

\* ------------------------------------------------ notions of the closed room
Idle(p) == FreeSlots(tasks[p]) = 1..MaxTasks
SentBy(p) ==
  sent[p]["offer"] + sent[p]["answer"] + sent[p]["ice-candidate"]
    + sent[p]["call-end"] + sent[p]["call-reject"]
\* signals the transport handed to p so far (it relays every signal to everyone)
Delivered(p) == (SentBy("admin") + SentBy("client")) - Len(inbox[p])
\* this step hands p a signal of the given type from the other participant
Handles(p, type) ==
  /\ inbox[p] # <<>> /\ Delivered(p)' = Delivered(p) + 1
  /\ Head(inbox[p]).signal_type = type /\ Head(inbox[p]).sender_type = Other(p)
CurrentPc(p) == pcs[p][peerConnectionRef[p]]
\* a is the caller of a negotiated session with the callee Other(a): the
\* current connections hold each other's descriptions
Matched(a) ==
  /\ peerConnectionRef[a] # 0 /\ peerConnectionRef[Other(a)] # 0
  /\ CurrentPc(a).local.type = "offer" /\ CurrentPc(a).remote.type = "answer"
  /\ CurrentPc(a).remote.re = peerConnectionRef[a]
  /\ CurrentPc(a).remote = CurrentPc(Other(a)).local
  /\ CurrentPc(Other(a)).remote = CurrentPc(a).local

\* C5: on the happy path the system gets to a state where both participants
\* are connected, the one who started is caller, the other callee, and the
\* callee has sent one answer and no offer.
C5_BothConnected ==
  \E a \in Party :
    /\ Connected(a) /\ Connected(Other(a))
    /\ Role(a) = "caller" /\ Role(Other(a)) = "callee"
    /\ sent[Other(a)]["answer"] = 1 /\ sent[Other(a)]["offer"] = 0
C5_HappyPath == <>C5_BothConnected

\* both connected, and the connections hold each other's offer and answer
C5_Witness ==
  \E a \in Party :
    /\ Connected(a) /\ Connected(Other(a)) /\ Matched(a)
    /\ Role(a) = "caller" /\ sent[Other(a)]["answer"] = 1

\* C6: while nobody has ended a call and both participants are callers,
\* neither is connected and each has sent at most one offer (exactly one once
\* its functions are done); and handling the other's offer changes nothing.
C6_BothCallers ==
  (/\ \A p \in Party : used[p].end = 0 /\ onCallEnded[p] = 0
   /\ \A p \in Party : Role(p) = "caller")
    => \A p \in Party :
         /\ ~Connected(p)
         /\ sent[p]["offer"] <= 1 /\ sent[p]["answer"] = 0
         /\ Idle(p) => sent[p]["offer"] = 1
C6_OfferIgnored ==
  \A p \in Party :
    Handles(p, "offer") => UNCHANGED <<hookVars, sent, onCallEnded>>
C6_SimultaneousJoin == []C6_BothCallers /\ [][C6_OfferIgnored]_vars

\* after the race and one endCall, a fresh join got the two connected for real
C6_Witness ==
  \E a \in Party :
    /\ \E p \in Party : hist[p].raced
    /\ \E p \in Party : used[p].end = 1
    /\ Connected(a) /\ Connected(Other(a)) /\ Matched(a)
    /\ Role(a) = "caller" /\ Role(Other(a)) = "callee"

\* C7: the participant who rejects has emitted one call-reject under its own
\* role and has no connection and no live track; the caller, having handled
\* the call-reject, is torn down with its connection closed and tracks stopped.
C7_RejectEndsCall ==
  \A p \in Party :
    /\ hist[p].last = "call-reject"
         => /\ TornDown(p) /\ callStatus[p] = "idle"
            /\ OpenPcs(p) = {} /\ LiveTracks(p) = {}
    /\ hist[p].last = "rejectCall"
         => /\ sent[p]["call-reject"] = 1 /\ sent[Other(p)]["call-reject"] = 0
            /\ peerConnectionRef[p] = 0 /\ OpenPcs(p) = {} /\ LiveTracks(p) = {}
    /\ \A i \in DOMAIN inbox[p] :
         inbox[p][i].signal_type = "call-reject"
           => /\ sent[inbox[p][i].sender_type]["call-reject"] = 1
              /\ sent[inbox[p][i].sender_type]["offer"] = 0

\* the caller had media and a connection, and has just handled the reject
C7_Witness ==
  \E a \in Party :
    /\ hist[a].last = "call-reject" /\ acquired[a] # {} /\ pcs[a] # <<>>
    /\ sent[a]["offer"] = 1 /\ hist[Other(a)].last = "rejectCall"

\* C8: with no toggle in flight the preview has two tracks, the outgoing video
\* track is in the preview and live, it is the screen track exactly when
\* sharing and the camera track otherwise; and no step of toggleScreenShare
\* emits a signal.
SharePc(p) == pcs[p][peerConnectionRef[p]]
Outgoing(p) == SharePc(p).senders[FirstVideo(SharePc(p).senders)]
C8_Tracks ==
  \A p \in Party :
    (localStream[p] # 0 /\ peerConnectionRef[p] # 0 /\ ~Toggling(p))
      => /\ Len(streams[p][localStream[p]]) = 2
         /\ Outgoing(p) \in Range(streams[p][localStream[p]])
         /\ Outgoing(p) \notin stopped[p]
         /\ isScreenSharing[p] <=> Outgoing(p).src = "screen"
         /\ ~isScreenSharing[p] => Outgoing(p) = Track("video", "cam", 1)
C8_NoRenegotiation ==
  \A p \in Party :
    (\/ used'[p].toggle # used[p].toggle
     \/ \E t \in 1..MaxTasks :
          tasks[p][t].op = "toggleScreenShare" /\ tasks'[p][t] # tasks[p][t])
      => sent'[p] = sent[p]
C8_ScreenShareRoundTrip == []C8_Tracks /\ [][C8_NoRenegotiation]_vars

\* connected, shared the screen and took it back: the camera goes out again
C8_Witness ==
  \E p \in Party :
    /\ Connected(p) /\ used[p].toggle >= 2 /\ ~Toggling(p) /\ ~isScreenSharing[p]
    /\ peerConnectionRef[p] # 0 /\ Outgoing(p) = Track("video", "cam", 1)
    /\ \E tr \in stopped[p] : tr.src = "screen"
\* ------------------------------------------------------ cancellation, start-once
\* a startCall / acceptCall suspended at one of its awaits
Suspended(p, t) ==
  /\ tasks[p][t].op \in {"startCall", "acceptCall"}
  /\ tasks[p][t].at \in {"lookup", "gum", "negotiate"}

\* C11: when a teardown (endCall, call-end or call-reject received, connection
\* failed) is followed by the resumption of a startCall / acceptCall that was
\* suspended across it, that step creates no peer connection, leaves none
\* open, acquires no track and emits no offer or answer.
C11_Cancellation ==
  [][\A p \in Party :
       (/\ hist[p].last \in {"endCall", "call-end", "call-reject", "failed"}
        /\ \E t \in 1..MaxTasks : Suspended(p, t) /\ tasks'[p][t] # tasks[p][t])
         => /\ Len(pcs'[p]) = Len(pcs[p]) /\ OpenPcs(p)' = {}
            /\ acquired'[p] = acquired[p]
            /\ sent'[p]["offer"] = sent[p]["offer"]
            /\ sent'[p]["answer"] = sent[p]["answer"]]_vars

\* the startCall functions in flight, and the connections startCall created
StartCalls(p) == {t \in 1..MaxTasks : tasks[p][t].op = "startCall"}
StartedPcs(p) ==
  {i \in DOMAIN pcs[p] :
     \/ pcs[p][i].local.type = "offer"
     \/ \E t \in StartCalls(p) : tasks[p][t].pc = i}
\* the media acquisitions whose tracks startCall gave to a connection
StartedMedia(p) == {pcs[p][i].senders[k].n : i \in StartedPcs(p), k \in 1..1}

\* C12: as long as no teardown has happened, at most one startCall has gone
\* past its guard: one function in flight or one offer emitted, one connection
\* and one media acquisition of startCall, and exactly one of each once the
\* caller's function is done; an invocation of startCall (direct, or as the
\* fallback of acceptCall) that finds the session started changes nothing.
C12_Once ==
  \A p \in Party :
    onCallEnded[p] = 0
      => /\ Cardinality(StartCalls(p)) + sent[p]["offer"] <= 1
         /\ Cardinality(StartedPcs(p)) <= 1
         /\ Cardinality(StartedMedia(p)) <= 1
         /\ (Role(p) = "caller" /\ StartCalls(p) = {} /\ hist[p].last # "none")
              => /\ sent[p]["offer"] = 1
                 /\ Cardinality(StartedPcs(p)) = 1
                 /\ Cardinality(StartedMedia(p)) = 1
C12_Guarded ==
  \A p \in Party :
    (hist'[p].last \in {"startCall", "fallback"} /\ hist' # hist /\ hasStartedRef[p]
       /\ used'[p].recv = used[p].recv)
      => /\ UNCHANGED <<isCallActive, isRinging, localStream, connectionState,
                        peerConnectionRef, pendingCandidatesRef, hasStartedRef,
                        isCallerRef, pcs, streams, acquired, stopped, sent, onCallEnded>>
         /\ StartCalls(p)' = StartCalls(p)
C12_StartOnce == []C12_Once /\ [][C12_Guarded]_vars

\* a startCall went through, its offer is out, and startCall was invoked again
C12_Witness ==
  \E p \in Party :
    /\ onCallEnded[p] = 0 /\ sent[p]["offer"] = 1 /\ Cardinality(StartedPcs(p)) = 1
    /\ hist[p].last \in {"startCall", "fallback"} /\ used[p].cmd >= 2

\* ------------------------------------------------------ the pending queue
\* the connection the ref holds has its remote description
RemoteSet(p) == peerConnectionRef[p] # 0 /\ CurrentPc(p).remote # NoDesc

\* C13: once a remote description (offer or answer) has been applied to the
\* current connection and the function that applied it is done, the pending
\* queue has been drained: no candidate is left in it, in either hook.
C13_DrainedAfterRemote ==
  \A p \in Party :
    (RemoteSet(p) /\ Idle(p)) => pendingCandidatesRef[p] = <<>>

\* C14: the pending queue is empty in every state where the current
\* connection has its remote description, and right after every teardown.
C14_QueueOnlyBeforeRemote ==
  \A p \in Party :
    /\ RemoteSet(p) => pendingCandidatesRef[p] = <<>>
    /\ hist[p].last \in Teardowns \cup {"rejectCall"} => pendingCandidatesRef[p] = <<>>

\* ------------------------------------------------------------- acceptCall
\* the acceptCall functions waiting for the offer lookup
LookingUp(p) == {t \in 1..MaxTasks : At(p, t, {"acceptCall"}, "lookup")}

\* C15: when the lookup of acceptCall returns nothing (or fails) startCall
\* runs and the participant is caller; when it returns an offer the
\* participant is callee; the answer is emitted by acceptCall for a connection
\* whose remote description is the offer the lookup returned; and in a session
\* a callee emits one answer (once acceptCall is done) and no offer.
C15_Fallback ==
  \A p \in Party :
    (\E t \in LookingUp(p) : tasks'[p][t] # tasks[p][t])
      => \/ /\ hist'[p].last = "fallback"
            /\ Role(p)' = "caller" /\ StartCalls(p)' # {} /\ isRinging'[p]
         \/ /\ hist'[p].last = "lookup"
            /\ Role(p)' = "callee" /\ StartCalls(p)' = {} /\ isCallActive'[p]
C15_AnswersTheOffer ==
  \A p \in Party :
    sent'[p]["answer"] # sent[p]["answer"]
      => /\ sent'[p]["answer"] = sent[p]["answer"] + 1
         /\ \E t \in 1..MaxTasks :
              /\ At(p, t, {"acceptCall"}, "negotiate") /\ tasks'[p][t] = NoTask
              /\ tasks[p][t].desc \in FoundOffers(p)
              /\ pcs'[p][tasks[p][t].pc].remote = tasks[p][t].desc
              /\ pcs'[p][tasks[p][t].pc].local = AnswerOf(p, tasks[p][t].pc, tasks[p][t].desc)
C15_CalleeSession ==
  \A p \in Party :
    /\ Role(p) = "callee" => StartCalls(p) = {}
    /\ (onCallEnded[p] = 0 /\ Role(p) = "callee")
         => /\ sent[p]["offer"] = 0 /\ sent[p]["answer"] <= 1
            /\ Idle(p) => sent[p]["answer"] = 1
    /\ (onCallEnded[p] = 0 /\ Role(p) = "caller") => sent[p]["answer"] = 0
C15_RoleResolution ==
  []C15_CalleeSession /\ [][C15_Fallback]_vars /\ [][C15_AnswersTheOffer]_vars

\* one session as callee with its answer out, ended, and the next lookup found
\* nothing: the participant is caller now
C15_Witness ==
  \E p \in Party :
    /\ sent[p]["answer"] = 1 /\ onCallEnded[p] > 0
    /\ hist[p].last = "fallback" /\ Role(p) = "caller"

\* the kinds of the tracks of p's newest stream
NewestKinds(p) == {streams[p][Len(streams[p])][k].kind : k \in DOMAIN streams[p][Len(streams[p])]}
\* what a callee must acquire for the offer o when called with wantsVideo
IntendedKinds(o, wantsVideo) ==
  IF (IF o.hasFlag THEN o.isVideo ELSE wantsVideo) THEN {"audio", "video"} ELSE {"audio"}

\* C16: the media acceptCall acquires after finding an offer is an audio
\* track, and a video track exactly when the offer's isVideo flag says so; the
\* argument of acceptCall decides only when the offer has no flag.
C16_MediaMatchesOffer ==
  [][\A p \in Party : \A t \in 1..MaxTasks :
       (At(p, t, {"acceptCall"}, "gum") /\ tasks'[p][t].at = "setRemote")
         => /\ Len(streams'[p]) = Len(streams[p]) + 1
            /\ localStream'[p] = Len(streams'[p])
            /\ NewestKinds(p)' = IntendedKinds(tasks[p][t].desc, tasks[p][t].wantsVideo)
            /\ pcs'[p][peerConnectionRef'[p]].senders = streams'[p][localStream'[p]]]_vars

\* media was just acquired against the wish of the argument: audio only for an
\* audio offer though video was asked for
C16_Witness ==
  \E p \in Party : \E t \in 1..MaxTasks :
    /\ hist[p].last = "media" /\ At(p, t, {"acceptCall"}, "setRemote")
    /\ tasks[p][t].wantsVideo /\ tasks[p][t].desc.hasFlag /\ ~tasks[p][t].desc.isVideo
    /\ localStream[p] = Len(streams[p]) /\ NewestKinds(p) = {"audio"}

\* ---------------------------------------------------------- inbound signals
\* the functions that answer: acceptCall of useWebRTCCall, answerCall of useWebRTC
Answering == {"acceptCall", "rtc_answerCall"}
\* the functions that acquire local media
Acquiring == {"startCall", "acceptCall", "rtc_startCall", "rtc_answerCall"}
\* this step hands p a signal from the room
Receives(p) == used'[p].recv = used[p].recv + 1
\* this step is p invoking startCall / acceptCall / answerCall
Invokes(p) == used'[p].cmd = used[p].cmd + 1

\* C17: before any local startCall / acceptCall / answerCall the participant
\* has emitted no answer and acquired no media, whatever it received; the
\* step that handles a signal emits nothing, acquires nothing and starts no
\* answering or acquiring function; an answer is emitted only by acceptCall /
\* answerCall, and these start only when invoked.
C17_NothingUninvited ==
  \A p \in Party :
    used[p].cmd = 0
      => /\ sent[p]["answer"] = 0 /\ sent[p]["offer"] = 0 /\ acquired[p] = {}
         /\ \A t \in 1..MaxTasks : tasks[p][t].op \notin Acquiring
C17_OnlyWhenInvoked ==
  \A p \in Party :
    /\ Receives(p)
         => /\ sent'[p] = sent[p] /\ acquired'[p] = acquired[p]
            /\ \A t \in 1..MaxTasks :
                 tasks'[p][t].op \in Acquiring
                   => /\ tasks'[p][t].op = tasks[p][t].op
                      /\ tasks'[p][t].at = tasks[p][t].at
    /\ sent'[p]["answer"] # sent[p]["answer"]
         => \E t \in 1..MaxTasks :
              /\ tasks[p][t].op \in Answering /\ tasks[p][t].at = "negotiate"
              /\ tasks'[p][t] # tasks[p][t]
    /\ \A t \in 1..MaxTasks :
         (tasks'[p][t].op \in Answering /\ tasks[p][t].op \notin Answering) => Invokes(p)
C17_NoAutoAnswer == []C17_NothingUninvited /\ [][C17_OnlyWhenInvoked]_vars

\* an offer was received and applied, the call is shown as incoming, and
\* nothing was answered or acquired
C17_Witness ==
  \E p \in Party :
    /\ callStatus[p] = "receiving" /\ onIncomingCall[p] = 1 /\ RemoteSet(p)
    /\ used[p].cmd = 0 /\ sent[p]["answer"] = 0 /\ acquired[p] = {}

\* p has started a call of its own: it is sending or has sent its offer
Calling(p) ==
  \/ mounted[p] = "call" /\ hasStartedRef[p] /\ isCallerRef[p]
  \/ mounted[p] = "rtc"
       /\ \/ \E t \in 1..MaxTasks : tasks[p][t].op = "rtc_startCall"
          \/ peerConnectionRef[p] # 0 /\ CurrentPc(p).local.type = "offer"

\* C18: handling an offer of the other party while calling leaves the peer
\* connections and the ref as they are (none closed, none created), the role
\* and the call state unchanged, and starts nothing that would show an
\* incoming call.
C18_OfferWhileCalling ==
  [][\A p \in Party :
       (Receives(p) /\ hist'[p].last = "offer" /\ Calling(p))
         => /\ pcs'[p] = pcs[p] /\ peerConnectionRef'[p] = peerConnectionRef[p]
            /\ isCallerRef'[p] = isCallerRef[p] /\ hasStartedRef'[p] = hasStartedRef[p]
            /\ isRinging'[p] = isRinging[p] /\ isCallActive'[p] = isCallActive[p]
            /\ callStatus'[p] = callStatus[p] /\ tasks'[p] = tasks[p]]_vars

\* the current connection is open with a local offer that has not been answered
Outstanding(p) ==
  /\ peerConnectionRef[p] # 0 /\ ~CurrentPc(p).closed
  /\ CurrentPc(p).local.type = "offer" /\ CurrentPc(p).remote = NoDesc

\* C19: handling an answer of the other party when there is no open connection
\* with an outstanding local offer changes nothing of the phase (ringing,
\* active, call status), in either hook.
C19_AnswerOnlyForOffer ==
  [][\A p \in Party :
       (Receives(p) /\ hist'[p].last = "answer" /\ ~Outstanding(p))
         => /\ isRinging'[p] = isRinging[p] /\ isCallActive'[p] = isCallActive[p]
            /\ callStatus'[p] = callStatus[p]]_vars

\* C20: handling an ice-candidate of the other party either gives it to the
\* current connection (remote description set) or appends it to the pending
\* queue (otherwise, a connection existing or not); it is never dropped.
C20_CandidateKept ==
  [][\A p \in Party :
       (Receives(p) /\ hist'[p].last = "ice-candidate")
         => \/ /\ RemoteSet(p)
               /\ Len(CurrentPc(p).applied') = Len(CurrentPc(p).applied) + 1
               /\ pendingCandidatesRef'[p] = pendingCandidatesRef[p]
            \/ /\ ~RemoteSet(p)
               /\ Len(pendingCandidatesRef'[p]) = Len(pendingCandidatesRef[p]) + 1]_vars

\* ------------------------------------------------------ call-end, call-reject
\* the connection the ref held before the step is closed after it
RefClosed(p) == peerConnectionRef[p] # 0 => pcs'[p][peerConnectionRef[p]].closed

\* C21: handling a call-end of the other party, in any state of either hook,
\* closes the connection the ref held, clears the ref, the pending queue, the
\* start-once flag and the role, leaves the participant neither ringing nor
\* active (call status idle), fires onCallEnded once and emits no signal.
C21_CallEndTearsDown ==
  [][\A p \in Party :
       (Receives(p) /\ hist'[p].last = "call-end")
         => /\ RefClosed(p) /\ TornDown(p)'
            /\ ~hasStartedRef'[p] /\ ~isCallerRef'[p] /\ callStatus'[p] = "idle"
            /\ onCallEnded'[p] = onCallEnded[p] + 1
            /\ onCallRejected'[p] = onCallRejected[p]
            /\ sent'[p] = sent[p]]_vars

\* a call-end was just handled by a participant whose connection had both
\* descriptions: the connection is closed now
C21_Witness ==
  \E p \in Party :
    /\ hist[p].last = "call-end" /\ onCallEnded[p] = 1 /\ peerConnectionRef[p] = 0
    /\ \E i \in DOMAIN pcs[p] :
         pcs[p][i].closed /\ pcs[p][i].local # NoDesc /\ pcs[p][i].remote # NoDesc

\* C22: handling a call-reject of the other party tears the participant down
\* and tells the UI through the call-rejected callback, not the call-ended one.
C22_RejectNotifiesDeclined ==
  [][\A p \in Party :
       (Receives(p) /\ hist'[p].last = "call-reject")
         => /\ RefClosed(p) /\ TornDown(p)' /\ callStatus'[p] = "idle"
            /\ onCallRejected'[p] = onCallRejected[p] + 1
            /\ onCallEnded'[p] = onCallEnded[p]]_vars

\* ------------------------------------------------------------------ endCall
\* this step is p invoking endCall
EndInvoked(p) ==
  /\ used'[p].end = used[p].end + 1
  /\ \/ mounted[p] = "call"
     \/ \E t \in 1..MaxTasks : tasks'[p][t].op = "rtc_endCall" /\ tasks[p][t].op = "none"
\* this step is the endCall of useWebRTC going on after its signal was inserted
EndResumes(p) ==
  \E t \in 1..MaxTasks : tasks[p][t].op = "rtc_endCall" /\ tasks'[p][t] = NoTask

\* C23: an endCall, in any state, hands the room one call-end signal under the
\* local role; the teardown and the onCallEnded callback come with it
\* (useWebRTCCall) or in the step after the signal was sent (useWebRTC), never
\* before; and a call-end is emitted only in the step that invokes endCall.
C23_EndCallOrder ==
  [][\A p \in Party :
       /\ EndInvoked(p)
            => /\ sent'[p]["call-end"] = sent[p]["call-end"] + 1
               /\ \A q \in Party :
                    inbox'[q] = Append(inbox[q], Sig("call-end", p, NoDesc, NoCand))
               /\ mounted[p] = "call"
                    => /\ RefClosed(p) /\ TornDown(p)'
                       /\ onCallEnded'[p] = onCallEnded[p] + 1
               /\ mounted[p] = "rtc"
                    => /\ onCallEnded'[p] = onCallEnded[p]
                       /\ peerConnectionRef'[p] = peerConnectionRef[p]
       /\ EndResumes(p)
            => /\ RefClosed(p) /\ TornDown(p)' /\ callStatus'[p] = "idle"
               /\ onCallEnded'[p] = onCallEnded[p] + 1
               /\ sent'[p] = sent[p]
       /\ sent'[p]["call-end"] # sent[p]["call-end"] => EndInvoked(p)]_vars

\* a participant whose connection had both descriptions ended the call: its
\* call-end is out, the connection closed, the callback fired
C23_Witness ==
  \E p \in Party :
    /\ hist[p].last = "endCall" /\ sent[p]["call-end"] = 1 /\ onCallEnded[p] = 1
    /\ TornDown(p)
    /\ \E i \in DOMAIN pcs[p] :
         pcs[p][i].closed /\ pcs[p][i].local # NoDesc /\ pcs[p][i].remote # NoDesc

\* ---------------------------------------------------------------- transport
\* C24: a connection reporting a state other than failed (connecting,
\* connected, disconnected) closes no connection, clears no ref and fires no
\* callback; and a startCall function starts only when startCall is invoked,
\* so that no offer follows a failure teardown by itself.
C24_OnlyFailureTearsDown ==
  [][\A p \in Party :
       /\ hist'[p].last \in {"transient", "ice"}
            => /\ peerConnectionRef'[p] = peerConnectionRef[p]
               /\ OpenPcs(p)' = OpenPcs(p)
               /\ onCallEnded'[p] = onCallEnded[p]
               /\ isCallActive'[p] = isCallActive[p]
               /\ callStatus'[p] \in {callStatus[p], "connected"}
       /\ \A t \in 1..MaxTasks :
            (tasks'[p][t].op \in {"startCall", "rtc_startCall"} /\ tasks[p][t].op = "none")
              => Invokes(p)]_vars


\* the startCall invocations of p that asked the browser for media, or went
\* past asking
Initiating(p) ==
  {t \in StartCalls(p) : tasks[p][t].at # "gum" \/ browser[p].mediaDevices}

\* C25: on a page whose origin is not https, localhost or 127.0.0.1, call
\* initiation is blocked before media acquisition with an error surfaced: no
\* startCall asks for media, creates a connection or emits an offer, whether
\* it comes from auto-start or from acceptCall falling back to startCall
C25_InsecureBlocked ==
  \A p \in Party :
    ~browser[p].isSecure
      => /\ Initiating(p) = {}
         /\ sent[p]["offer"] = 0
         /\ StartCalls(p) # {} => error[p] # "none"


\* the step in which getUserMedia, awaited by startCall or acceptCall, rejects
MediaRejected(p) ==
  /\ hist'[p].last = "catch"
  /\ \E t \in 1..MaxTasks :
       /\ tasks[p][t].op \in {"startCall", "acceptCall"} /\ tasks[p][t].at = "gum"
       /\ tasks'[p][t] = NoTask

\* C26: when media acquisition fails in startCall or acceptCall the call is
\* aborted: no connection is left, no signal is emitted, the phase flags and
\* the role are cleared, the error is surfaced (error state and toast),
\* onCallEnded fires once, and nothing is started again
C26_MediaFailureAborts ==
  [][\A p \in Party :
       MediaRejected(p)
         => /\ peerConnectionRef'[p] = 0 /\ OpenPcs(p)' = {}
            /\ sent'[p] = sent[p]
            /\ ~isCallActive'[p] /\ ~isRinging'[p]
            /\ ~hasStartedRef'[p] /\ ~isCallerRef'[p]
            /\ error'[p] = "media"
            /\ toast'[p] = [title |-> "Media Access Error", n |-> toast[p].n + 1]
            /\ onCallEnded'[p] = onCallEnded[p] + 1
            /\ \A u \in 1..MaxTasks :
                 tasks[p][u].op = "none" => tasks'[p][u].op = "none"]_vars

\* ------------------------------------------------------------ screen sharing
\* the outgoing video track of the connection the ref holds (NoTrack: none)
OutgoingVideo(p) ==
  IF peerConnectionRef[p] = 0 \/ VideoIdx(SharePc(p).senders) = {} THEN NoTrack
  ELSE Outgoing(p)

\* the tracks of the local preview
Preview(p) == IF localStream[p] = 0 THEN {} ELSE Range(streams[p][localStream[p]])

\* the step in which the toggleScreenShare t of p ends in its catch block
ShareFails(p, t) ==
  /\ tasks[p][t].op = "toggleScreenShare" /\ tasks'[p][t] = NoTask
  /\ toast'[p] = [title |-> "Screen Share Error", n |-> toast[p].n + 1]

\* C27: a failure inside toggleScreenShare leaves isScreenSharing and the saved
\* camera track as they were when it was called, and does not touch the
\* outgoing video track or the local preview
C27_FailureChangesNothing ==
  [][\A p \in Party, t \in 1..MaxTasks :
       ShareFails(p, t)
         => /\ isScreenSharing'[p] = tasks[p][t].was.sharing
            /\ originalVideoTrackRef'[p] = tasks[p][t].was.orig
            /\ OutgoingVideo(p)' = OutgoingVideo(p)
            /\ Preview(p)' = Preview(p)]_vars


\* C28: isScreenSharing is true only while a screen-capture track that has
\* not been stopped and has not ended is the outgoing video track of an open
\* connection
C28_SharingMeansScreenGoesOut ==
  \A p \in Party :
    isScreenSharing[p]
      => /\ peerConnectionRef[p] # 0 /\ ~SharePc(p).closed
         /\ OutgoingVideo(p).src = "screen"
         /\ OutgoingVideo(p) \notin stopped[p]


\* the step in which the browser's stop control ends a screen track and the
\* track's onended handler runs
NativeStop(p) == hist'[p].last = "onended"

\* the step in which a toggleScreenShare that was called to stop sharing
\* returns without an error
DisableReturns(p) ==
  /\ isScreenSharing[p] /\ ~isScreenSharing'[p] /\ toast'[p] = toast[p]
  /\ peerConnectionRef[p] # 0

\* the screen-capture tracks of p that are neither stopped nor ended
LiveScreens(p) == {tr \in LiveTracks(p) : tr.src = "screen"}

\* C29: disabling screen share, by toggleScreenShare or by the browser's stop
\* control, puts the saved camera track back as the outgoing video track,
\* stops the screen track, takes it out of the preview and clears the saved
\* reference, in video and in audio-only calls; the stop control never opens
\* a new display capture
C29_DisableRestoresCamera ==
  [][\A p \in Party :
       /\ DisableReturns(p)
            => /\ OutgoingVideo(p)' = originalVideoTrackRef[p]
               /\ LiveScreens(p)' = {}
               /\ \A tr \in Preview(p)' : tr.src # "screen"
               /\ originalVideoTrackRef'[p] = NoTrack
       /\ NativeStop(p)
            => \A t \in 1..MaxTasks :
                 ~(tasks'[p][t].op = "toggleScreenShare" /\ tasks'[p][t].at = "display")]_vars


\* C30: with no toggle in progress, the saved original camera track reference
\* is non-null only while screen sharing is on, and it is null after teardown
C30_SavedOnlyWhileSharing ==
  \A p \in Party :
    (~Toggling(p) /\ originalVideoTrackRef[p] # NoTrack)
      => isScreenSharing[p] /\ peerConnectionRef[p] # 0


\* ------------------------------------------------------------------- muting
LocalTracks(p, kind) == {tr \in Preview(p) : tr.kind = kind}

\* C31: while there is a local stream, the muted indicator is true exactly
\* when every local audio track is disabled, and the video-off indicator is
\* true exactly when the stream's video tracks (if any) are all disabled
C31_IndicatorsMatchTracks ==
  \A p \in Party :
    localStream[p] # 0
      => /\ isAudioMuted[p] <=> LocalTracks(p, "audio") \subseteq disabled[p]
         /\ LocalTracks(p, "video") # {}
              => (isVideoOff[p] <=> LocalTracks(p, "video") \subseteq disabled[p])


\* --------------------------------------------------------------- the room
\* C32: opening or closing a call never takes the participant's socket out of
\* the room, so every offer the other role emits is put on the participant's
\* delivery queue
C32_InRoom == \A p \in Party : inRoom[p]
C32_OfferReaches ==
  \A p \in Party :
    sent'[Other(p)]["offer"] > sent[Other(p)]["offer"]
      => Len(inbox'[p]) > Len(inbox[p])
C32_StaysInRoom == []C32_InRoom /\ [][C32_OfferReaches]_vars


\* ------------------------------------------------------- the notification
\* this step hands p a signal (open environment)
Hears(p) == used'[p].recv = used[p].recv + 1
Accepts(p) == mounted[p] = "no" /\ mounted'[p] = "call"

\* C33: the notification appears or changes only on an offer of the other
\* role and then shows that offer's video intent (audio when the flag is
\* absent); accepting passes the shown intent to acceptCall and clears the
\* notification; a call-end or call-reject of the other role clears it
C33_NotificationStep ==
  \A p \in Party :
    /\ (incomingCall'[p] # incomingCall[p] /\ incomingCall'[p] # "none")
         => Hears(p) /\ hist'[p].last \in OfferFlags
    /\ (Hears(p) /\ hist'[p].last \in OfferFlags)
         => incomingCall'[p] = (IF hist'[p].last = "offer-video" THEN "video" ELSE "audio")
    /\ Accepts(p)
         => /\ incomingCall[p] # "none" /\ incomingCall'[p] = "none"
            /\ \E t \in 1..MaxTasks :
                 /\ tasks[p][t].op = "none" /\ tasks'[p][t].op = "acceptCall"
                 /\ tasks'[p][t].wantsVideo = (incomingCall[p] = "video")
    /\ (Hears(p) /\ hist'[p].last \in {"call-end", "call-reject"})
         => incomingCall'[p] = "none"
C33_NotificationFollowsOffer == [][C33_NotificationStep]_vars
\* a video notification was accepted after two signals had been heard
C33_Witness ==
  \E p \in Party :
    /\ mounted[p] = "call" /\ incomingCall[p] = "none" /\ used[p].recv >= 2
    /\ \E t \in 1..MaxTasks : tasks[p][t].op = "acceptCall" /\ tasks[p][t].wantsVideo


\* C34: a signal the participant's own role sent leaves the notification as
\* it was
C34_OwnSignalStep ==
  \A p \in Party :
    (Hears(p) /\ hist'[p].last = "self") => incomingCall'[p] = incomingCall[p]
C34_OwnSignalsIgnored == [][C34_OwnSignalStep]_vars


\* ------------------------------------------------------------------ phases
\* C35: ringing and call-active are never both true, and call-active is true
\* only while the current peer connection is open and has a remote
\* description applied
C35_PhaseConsistent ==
  \A p \in Party :
    mounted[p] = "call"
      => /\ ~(isRinging[p] /\ isCallActive[p])
         /\ isCallActive[p]
              => /\ peerConnectionRef[p] # 0
                 /\ ~CurrentPc(p).closed
                 /\ CurrentPc(p).remote # NoDesc


\* -------------------------------------------------------------- the bubble
\* the contents that are call-link messages: a link prefix at the start, or a
\* call marker anywhere
CallLinks ==
  {<<VideoPrefix, "text">>, <<AudioPrefix, "text">>, <<"text", "[VIDEO_CALL]">>,
   <<"text", "[AUDIO_CALL]">>, <<"[AUDIO_CALL]", "[VIDEO_CALL]">>}
TimerFired == bubble.timers \ bubble'.timers
MarkedRead == bubble'.onRead > bubble.onRead
C36_NeverDeleted ==
  (bubble.isOwn \/ bubble.content \in CallLinks)
    => /\ bubble.onDelete = 0 /\ bubble.isVisible
       /\ \A t \in bubble.timers : t.kind = "read"
C36_BubbleStep ==
  /\ MarkedRead
       => /\ bubble.shown /\ ~bubble.isOwn /\ ~bubble.isRead
          /\ bubble'.now = bubble.effectAt + ReadDelay
  /\ \A t \in bubble'.timers \ bubble.timers :
       t.kind = "delete"
         => /\ MarkedRead /\ bubble.autoDeleteOnRead /\ bubble.content \notin CallLinks
            /\ t.due = bubble'.now + DeleteDelay
  /\ (bubble.isVisible /\ ~bubble'.isVisible)
       => \E t \in TimerFired : t.kind = "delete" /\ bubble'.now = t.readAt + DeleteDelay
  /\ bubble'.onDelete > bubble.onDelete
       => \E t \in TimerFired :
            t.kind = "fade" /\ bubble'.now = t.readAt + DeleteDelay + FadeDelay
\* C36: a bubble is marked read only when it is displayed, not the viewer's
\* own and unread, one second after its effect last ran; its deletion is
\* scheduled only when it is marked read with auto-delete enabled and it is no
\* call link, and happens two minutes (and the fade) after the read mark; own
\* messages and call links are never hidden or deleted by the bubble
C36_ReadThenDelete == []C36_NeverDeleted /\ [][C36_BubbleStep]_vars
\* a message was auto-deleted after the chat view had rendered again
C36_Witness == bubble.onDelete > 0 /\ bubble.renders > 0


\* ---------------------------------------------------------------- the lists
Distinct(list) == \A i, j \in DOMAIN list : list[i].id = list[j].id => i = j
\* every request has been answered and every event handed over
RoomsQuiet ==
  /\ roomsHook.fetch.at = "done" /\ roomsHook.events = <<>>
  /\ roomsHook.creating = {} /\ roomsHook.deleting = {}
\* C37: the rooms list never holds a room id twice, and once everything in
\* flight has arrived it holds no room that became inactive
C37_RoomsOnce ==
  /\ Distinct(roomsHook.rooms)
  /\ RoomsQuiet => \A i \in DOMAIN roomsHook.rooms :
                     roomsHook.table[roomsHook.rooms[i].id].is_active


MessagesEvent == messagesHook.events # <<>> /\ messagesHook'.events = Tail(messagesHook.events)
Others(list, id) == SelectSeq(list, LAMBDA m : m.id # id)
\* C38: the message list never holds a message id twice and holds every
\* message an INSERT event delivered and no DELETE event removed; an UPDATE or
\* DELETE event leaves the entries of the other ids as they were
C38_Kept ==
  /\ Distinct(messagesHook.messages)
  /\ (messagesHook.inserted \ messagesHook.deleted) \subseteq Ids(messagesHook.messages)
C38_EventStep ==
  (MessagesEvent /\ Head(messagesHook.events).type \in {"UPDATE", "DELETE"})
    => LET event == Head(messagesHook.events)
       IN /\ Others(messagesHook'.messages, event.new.id)
               = Others(messagesHook.messages, event.new.id)
          /\ event.type = "DELETE" => event.new.id \notin Ids(messagesHook'.messages)
          /\ event.type = "UPDATE"
               => messagesHook'.messages
                    = MapSeq(messagesHook.messages,
                             LAMBDA m : IF m.id = event.new.id THEN event.new ELSE m)
C38_MessagesOnce == []C38_Kept /\ [][C38_EventStep]_vars

====
